---- MODULE Spec2Model ----
(***************************************************************************)
(* Transmission and resilience pipeline of the PostgreSQL monitoring agent *)
(* (postgres-agent/src): the HTTP sender, the pybreaker circuit breaker,   *)
(* the persistqueue-backed persistent buffer and the daemon's two threads  *)
(* (the main thread running start-up, the collection loop with its four    *)
(* samplers and then the cleanup, and the daemon log-parser thread, which  *)
(* consumes the records the log tailer assembles in its line_buffer).      *)
(*                                                                         *)
(* Library behaviour the code relies on:                                   *)
(*  - pybreaker.CircuitBreaker.call runs the wrapped function while        *)
(*    holding the breaker's lock; state names are "closed", "open" and     *)
(*    "half-open"; an open breaker turns half-open only when a call        *)
(*    arrives after reset_timeout; a failure that trips the breaker is     *)
(*    reported as CircuitBreakerError; the listener that                   *)
(*    get_circuit_breaker registers only logs state changes.               *)
(*  - persistqueue.FIFOSQLiteQueue (auto_commit=True): get() deletes the   *)
(*    row at once, put() appends at the tail, every single operation is    *)
(*    serialized by the queue's own lock.                                  *)
(*  - requests.Response.raise_for_status raises for 400 <= status < 600.   *)
(*  - threading: a daemon thread is ended when the interpreter exits.      *)
(*  - persistqueue: qsize() runs a COUNT query on the SQLite file and       *)
(*    raises sqlite3.Error when the file cannot be read.                   *)
(*  - re: "." does not match a newline unless DOTALL is given.             *)
(*  - psycopg_pool: leaving "with pool.connection()" commits the           *)
(*    transaction and gives the connection back, and raises when the       *)
(*    commit fails.                                                        *)
(*                                                                         *)
(* Several specifications share the variables. Spec is the pipeline as a   *)
(* whole, with the tailer reduced to the kind of record it holds and       *)
(* get_circuit_breaker to one step. Each of the others follows one part of *)
(* the program in more detail, in a variable of its own, and leaves the    *)
(* variables of the others alone: TailSpec and TailFairSpec                *)
(* tail_postgres_log line by line over a log that is written and rotated   *)
(* (tailer); BreakerSpec the statements of get_circuit_breaker in the two  *)
(* threads (gcb); StatementsSpec the pg_stat_statements check and its      *)
(* cache (ext); PaceSpec the collection loop against the clock (pacer);    *)
(* BatchSpec send_batch_to_listener (batch); CodecSpec an envelope through *)
(* json.dumps, the queue and json.loads (codec); CollectorSpec the         *)
(* LogCollector under its two threads (collector); DrainSpec the cycle's   *)
(* sends and flush, tick after tick, against a listener that recovers      *)
(* (drain).                                                                *)
(***************************************************************************)
EXTENDS Integers, Sequences, FiniteSets, TLC

\* ------------------------------------------------------------------ bounds
\* The configuration values are scaled down: the buffer limit is counted in
\* entries and fail_max is small, so that overflow and tripping are reached.
MaxEvents == 4          \* envelopes of the collection cycles plus log lines read
BufferMaxSize == 2      \* Config.buffer_max_size_mb, in units of one entry
FailMax == 2            \* Config.circuit_breaker_fail_max (default 5)
MaxLines == 3           \* lines written to the log, over all of its files
MaxFiles == 2           \* files the log path names in turn (rotations + 1)
MaxIoErrors == 1        \* failures of the file system under the tailer
MaxCalls == 3           \* calls of send_to_listener racing for the breaker
MaxTicks == 4           \* collection cycles that call collect_pg_statements
MaxItems == 4           \* items given to send_batch_to_listener
MaxClock == 3           \* seconds on the clock while an envelope is buffered
MaxEntries == 3         \* log entries the tailer yields to the log thread
MaxBatch == 2           \* LogCollector.max_entries (500), scaled down
MaxBuffered == 3        \* entries the buffer holds before eviction sets in
IntervalS == 2          \* Config.collection_interval_s (default 60), in seconds
MaxDuration == 4        \* longest collection cycle, in seconds
MaxCycles == 3          \* collection cycles followed against the clock

\* -------------------------------------------------------- program constants
FlushMaxItems == 50     \* flush_buffer(self.config, max_items=50)
LogMaxEntries == 500    \* LogCollector(max_entries=500)

Threads == {"main", "log"}

Sources == {"pg_stat_activity", "pg_stat_statements", "pg_locks",
            "pg_log", "system_metrics"}

\* Answers of the listener to one POST: a status, or a transport exception
\* (timeout, connection refused).
Responses == {"200", "204", "304", "503", "exc"}

\* HTTP success: a status in [200, 300).
Is2xx(r) == r \in {"200", "204"}

\* Values of Config.project_id: the default, or an empty string taken from
\* the INI file or from BITVILLE_PG_PROJECT_ID.
Projects == {"default", ""}

\* What a sampler call can do: return rows, return nothing, or fail.
Outcomes == {"rows", "empty", "error"}

\* A record in the log file: with or without the correlation id that an
\* upstream application put into its application_name. Only the first record
\* read after start-up is taken from both kinds, the later ones are plain.
Records == {"plain", "corr"}

\* What SELECT 1 does in create_pool: fetchone() returns a row holding 1, it
\* returns something else (no row, or another value), or the query raises.
PoolChecks == {"one", "other", "raises"}

\* A physical line of the log: "entry" starts with a timestamp and matches
\* LOG_LINE_PATTERN or LOG_LINE_SIMPLE, "odd" starts with a timestamp and
\* matches neither, "cont" does not start with a timestamp.
LineKinds == {"entry", "odd", "cont"}

NoEnv == [src |-> "none", seq |-> 0, project |-> "none"]

\* results of _collection_cycle before any sampler has run: TRUE stands for
\* a non-empty result.
NoResults == [pg_activity |-> FALSE, pg_statements |-> FALSE, locks |-> FALSE,
              system_metrics |-> FALSE]

VARIABLES
    pc,          \* [Threads -> control point]
    cur,         \* [Threads -> the envelope the thread is sending, or NoEnv]
    result,      \* [Threads -> what send_to_listener is returning]
    lastResp,    \* [Threads -> the listener's answer to the thread's POST]
    running,     \* PostgresMonitoringAgent.running
    shutdown,    \* PostgresMonitoringAgent._shutdown_event
    events,      \* envelopes built by collection cycles plus log lines read
    logCount,    \* len(LogCollector._entries)
    cbState,     \* CircuitBreaker.current_state
    failCount,   \* CircuitBreaker.fail_counter
    consecFails, \* failed POSTs of send_to_listener since its last successful one
    elapsed,     \* reset_timeout has passed since opened_at
    cbLock,      \* holder of CircuitBreaker._lock, "none" when free
    bufOpen,     \* buffer._buffer is not None
    queue,       \* rows of the FIFOSQLiteQueue, oldest first
    disk,        \* os.path.getsize of the queue's database file, in entries
    flushLeft,   \* iterations left in flush_buffer's for loop
    flushItem,   \* entry flush_buffer has dequeued and is POSTing, or NoEnv
    flushResp,   \* the listener's answer to flush_buffer's POST
    nextSeq,     \* sequence number of the next envelope enqueued by buffer_data
    project,     \* Config.project_id
    pool,        \* database.pool: the connection pool exists
    breaker,     \* circuit_breaker._breaker is not None
    results,     \* _collection_cycle's results: which of them are non-empty
    errors,      \* _collection_cycle's errors list
    line_buffer, \* tail_postgres_log's line_buffer: "none" when empty, else the
                 \* kind of record its lines make up
    tailer,      \* tail_postgres_log with the log file around it, line by line
    gcb,         \* get_circuit_breaker: the module's _breaker and its callers
    closes,      \* close() calls made on the pool; drops of the module's _buffer
    ext,         \* pg_statements: _extension_available and the calls that use it
    pacer,       \* _collection_loop against the clock: cycle starts, ends and sleeps
    batch,       \* send_batch_to_listener: one call, its counters and the breaker
    codec,       \* one envelope on its way through buffer_data and flush_buffer
    collector,   \* LogCollector and the two threads that add to it and flush it
    drain        \* the collection cycle's sends and flush against the listener, tick after tick

vars == <<pc, cur, result, lastResp, running, shutdown, events,
          logCount, cbState, failCount, consecFails, elapsed, cbLock, bufOpen,
          queue, disk, flushLeft, flushItem, flushResp, nextSeq,
          project, pool, breaker, results, errors, line_buffer,
          tailer, gcb, closes, ext, pacer, batch, codec, collector, drain>>

\* No file is open.
NoHandle == [ino |-> 0, pos |-> 0]

\* tail_postgres_log is called: the log path names its first file (inode 1),
\* nothing is open, line_buffer is empty and nothing has been yielded.
TailerStart ==
    [files |-> << <<>> >>, path_inode |-> 1, f |-> NoHandle, last_inode |-> 0,
     line_buffer |-> <<>>, yielded |-> <<>>, pc |-> "start", io_errors |-> 0]

\* The module is imported: _breaker is None (0), no CircuitBreaker exists and
\* neither thread is inside send_to_listener.
GcbStart ==
    [global |-> 0, instances |-> <<>>,
     breaker |-> [t \in Threads |-> 0],
     pc |-> [t \in Threads |-> "idle"],
     calls |-> 0]

\* pg_statements is imported: _extension_available is None, it has not been
\* assigned, start() has not called check_pg_stat_statements yet and
\* collect_pg_statements has returned nothing.
ExtStart ==
    [available |-> "None", writes |-> 0, queried |-> 0, pc |-> "start",
     caller |-> "start", returned |-> <<>>]

\* _collection_loop is entered at time 0: no cycle has started and the stop
\* flag is not set.
PacerStart ==
    [pc |-> "test", now |-> 0, cycle_start |-> 0, sleep_time |-> 0,
     started |-> <<>>, ended |-> <<>>, stop |-> FALSE]

\* send_batch_to_listener has not been called; the breaker is closed with no
\* failure counted.
BatchStart ==
    [pc |-> "idle", items |-> 0, done |-> 0, sent |-> 0, buffered |-> 0,
     posts |-> 0, state |-> "closed", fail_counter |-> 0, elapsed |-> FALSE,
     opened |-> FALSE, returned |-> <<>>]

\* No JSON document.
NoDoc ==
    [correlation_id |-> "", project |-> "", timestamp |-> 0, source |-> "",
     data |-> [k |-> "null", v |-> "null"]]

\* send_to_listener has not been called; time.time() is 1.
CodecStart ==
    [pc |-> "idle", now |-> 1, payload |-> NoDoc, stored |-> NoDoc,
     body |-> NoDoc]

\* The agent is running: the LogCollector holds its first, empty list, the
\* main thread is in the collection loop, the log thread waits for the
\* tailer and no pg_log envelope has been handed to send_to_listener.
CollectorStart ==
    [lists |-> << <<>> >>, entries |-> 1,
     local |-> [t \in Threads |-> 0],
     pc |-> [t \in Threads |-> IF t = "main" THEN "loop" ELSE "tail"],
     event |-> FALSE, added |-> 0, envelopes |-> <<>>]

\* The agent has started: the breaker is closed, the buffer is empty, the
\* main thread is about to run a collection cycle and the listener may still
\* answer anything.
DrainStart ==
    [pc |-> "send_locks", state |-> "closed", fail_counter |-> 0,
     elapsed |-> FALSE, queue |-> 0, left |-> 0, ok |-> FALSE]

\* main() has loaded the configuration and constructed the agent; start() has
\* not run yet.
Init ==
    /\ pc = [t \in Threads |-> IF t = "main" THEN "start_pool" ELSE "idle"]
    /\ cur = [t \in Threads |-> NoEnv]
    /\ result = [t \in Threads |-> "none"]
    /\ lastResp = [t \in Threads |-> "none"]
    /\ running = FALSE
    /\ shutdown = FALSE
    /\ events = 0
    /\ logCount = 0
    /\ cbState = "closed"
    /\ failCount = 0
    /\ consecFails = 0
    /\ elapsed = FALSE
    /\ cbLock = "none"
    /\ bufOpen = FALSE
    /\ queue = <<>>
    /\ disk = 0
    /\ flushLeft = 0
    /\ flushItem = NoEnv
    /\ flushResp = "none"
    /\ nextSeq = 1
    /\ project \in Projects
    /\ pool = FALSE
    /\ breaker = FALSE
    /\ results = NoResults
    /\ errors = <<>>
    /\ line_buffer = "none"
    /\ tailer = TailerStart
    /\ gcb = GcbStart
    /\ closes = [pool |-> 0, buffer |-> 0]
    /\ ext = ExtStart
    /\ pacer = PacerStart
    /\ batch = BatchStart
    /\ codec = CodecStart
    /\ collector = CollectorStart
    /\ drain = DrainStart

\* ------------------------------------------------------------ helpers
Min(a, b) == IF a < b THEN a ELSE b

InQueue(q, seq) == \E i \in 1..Len(q) : q[i].seq = seq

\* requests' raise_for_status raises for 4xx and 5xx only; a transport
\* error is raised by requests.post itself.
Raises(r) == r \in {"503", "exc"}

\* flush_buffer: if response.status_code == 200
FlushOk(r) == r = "200"

\* The file never holds fewer bytes than its rows; SQLite keeps the pages of a
\* deleted row on its free list, so after a delete the file is anywhere
\* between the live rows and its former size.
SizeAfterGet(q) == Len(q)..disk

SizeAfterPut(q) == IF Len(q) > disk THEN Len(q) ELSE disk

\* _check_and_evict_if_needed: if size_mb > _config.buffer_max_size_mb
OverLimit(size) == size > BufferMaxSize

\* _check_and_evict_if_needed, the while condition:
\* size_mb > target_mb (0.8 * max) and _buffer.qsize() > 0
EvictMore(size, q) == 10 * size > 8 * BufferMaxSize /\ Len(q) > 0

\* Mutant of Trips: the threshold test is off by one.
TripsLate(count) == count > FailMax

\* pybreaker, closed state: the breaker opens once fail_counter >= fail_max.
Trips(count) == count >= FailMax

\* Mutant of CountAfterSuccess: a success leaves fail_counter as it is.
CountKept(count) == count

\* pybreaker: a call that does not raise resets fail_counter.
CountAfterSuccess(count) == 0

\* flush_buffer, a status other than 200: _buffer.put(item_str)
Requeue(q, item) == Append(q, item)

\* is_circuit_open: _breaker.current_state == 'open'
is_circuit_open == cbState = "open"

\* Mutant of NextSampler: a sampler's failure ends the tick.
AbortOnError(o, next) == IF o = "error" THEN "wait" ELSE next

\* _collection_cycle: every sampler call sits in its own try/except, so the
\* cycle goes on to the next step whatever the outcome.
NextSampler(o, next) == next

\* Mutant of AfterSend: the statements envelope is skipped after the
\* activity envelope.
AfterSendSkipping(t, source) ==
    IF t = "log" THEN "tail"
    ELSE CASE source = "pg_stat_activity" -> "c_locks"
           [] source = "pg_stat_statements" -> "c_locks"
           [] source = "pg_locks" -> "c_metrics"
           [] source = "system_metrics" -> "c_flush"
           [] OTHER -> "cleanup_pool"

\* Where a thread continues once send_to_listener has returned.
AfterSend(t, source) ==
    IF t = "log" THEN "tail"
    ELSE CASE source = "pg_stat_activity" -> "c_statements"
           [] source = "pg_stat_statements" -> "c_locks"
           [] source = "pg_locks" -> "c_metrics"
           [] source = "system_metrics" -> "c_flush"
           [] OTHER -> "cleanup_pool"

\* Mutant of should_flush: the batch is full only past max_entries.
should_flush_late(n) == n > LogMaxEntries

\* LogCollector.add: return len(self._entries) >= self.max_entries
should_flush(n) == n >= LogMaxEntries

\* Mutant of AfterWait: the loop ignores what wait() returns.
AfterWaitLooping(flag) == "loop"

\* _collection_loop: if self._shutdown_event.wait(timeout=sleep_time): break
AfterWait(flag) == IF flag THEN "stop" ELSE "loop"

\* Mutant of AfterCycleError: the exception leaves _collection_loop.
CycleErrorPropagates == "stop"

\* _collection_loop: the except clause logs collection_cycle_failed and falls
\* through to the pacing and the wait.
AfterCycleError == "wait"

\* send_to_listener up to the call of _send: get_circuit_breaker creates the
\* breaker on the first call, then the envelope is built.
StartSend(t, source) ==
    /\ breaker' = TRUE
    /\ cur' = [cur EXCEPT ![t] = [src |-> source, seq |-> 0,
                                  project |-> project]]
    /\ pc' = [pc EXCEPT ![t] = "s_call"]

\* send_to_listener reaches a return statement with value r.
Returning(t, r) ==
    /\ result' = [result EXCEPT ![t] = r]
    /\ pc' = [pc EXCEPT ![t] = "s_ret"]

\* ---------------------------------------------------- circuit breaker
\* pybreaker: CircuitBreaker.call takes the lock; an open breaker whose
\* timeout has not elapsed raises CircuitBreakerError, one whose timeout has
\* elapsed turns half-open and lets the call through: requests.post is issued.
SendCall(t) ==
    /\ pc[t] = "s_call"
    /\ cbLock = "none"
    /\ IF cbState = "open" /\ ~elapsed
       THEN /\ pc' = [pc EXCEPT ![t] = "b_check"]
            /\ UNCHANGED <<cbState, cbLock>>
       ELSE /\ cbState' = IF cbState = "open" THEN "half-open" ELSE cbState
            /\ cbLock' = t
            /\ pc' = [pc EXCEPT ![t] = "s_post"]
    /\ UNCHANGED <<cur, result, lastResp, running, shutdown, events,
                   logCount, failCount, consecFails, elapsed, bufOpen, queue,
                   disk, flushLeft, flushItem, flushResp, nextSeq>>
    /\ UNCHANGED <<project, pool, breaker, results, errors, line_buffer>>
    /\ UNCHANGED <<tailer, gcb, closes, ext, pacer, batch, codec, collector, drain>>

\* _send: requests.post answers r; the breaker records success or failure.
SendPost(t, r) ==
    /\ pc[t] = "s_post"
    /\ cbLock' = "none"
    /\ lastResp' = [lastResp EXCEPT ![t] = r]
    /\ IF Raises(r)
       THEN /\ failCount' = failCount + 1
            /\ consecFails' = consecFails + 1
            /\ IF cbState = "half-open" \/ Trips(failCount + 1)
               THEN cbState' = "open" /\ elapsed' = FALSE
               ELSE UNCHANGED <<cbState, elapsed>>
            /\ pc' = [pc EXCEPT ![t] = "b_check"]
            /\ UNCHANGED result
       ELSE /\ failCount' = CountAfterSuccess(failCount)
            /\ consecFails' = 0
            /\ cbState' = "closed"
            /\ UNCHANGED elapsed
            /\ Returning(t, "sent")
    /\ UNCHANGED <<cur, running, shutdown, events, logCount,
                   bufOpen, queue, disk, flushLeft, flushItem, flushResp,
                   nextSeq>>
    /\ UNCHANGED <<project, pool, breaker, results, errors, line_buffer>>
    /\ UNCHANGED <<tailer, gcb, closes, ext, pacer, batch, codec, collector, drain>>

\* The caller takes send_to_listener's return value and goes on.
SendReturn(t) ==
    /\ pc[t] = "s_ret"
    /\ pc' = [pc EXCEPT ![t] = AfterSend(t, cur[t].src)]
    /\ cur' = [cur EXCEPT ![t] = NoEnv]
    /\ result' = [result EXCEPT ![t] = "none"]
    /\ lastResp' = [lastResp EXCEPT ![t] = "none"]
    /\ UNCHANGED <<running, shutdown, events, logCount, cbState,
                   failCount, consecFails, elapsed, cbLock, bufOpen, queue,
                   disk, flushLeft, flushItem, flushResp, nextSeq>>
    /\ UNCHANGED <<project, pool, breaker, results, errors, line_buffer>>
    /\ UNCHANGED <<tailer, gcb, closes, ext, pacer, batch, codec, collector, drain>>

\* reset_timeout passes while the breaker is open.
TimeoutElapses ==
    /\ cbState = "open"
    /\ ~elapsed
    /\ elapsed' = TRUE
    /\ UNCHANGED <<pc, cur, result, lastResp, running, shutdown, events,
                   logCount, cbState, failCount, consecFails,
                   cbLock, bufOpen, queue, disk, flushLeft, flushItem,
                   flushResp, nextSeq>>
    /\ UNCHANGED <<project, pool, breaker, results, errors, line_buffer>>
    /\ UNCHANGED <<tailer, gcb, closes, ext, pacer, batch, codec, collector, drain>>

\* ------------------------------------------------------- buffer_data
\* buffer_data up to the first test of the eviction loop.
BufCheck(t) ==
    /\ pc[t] = "b_check"
    /\ IF ~bufOpen
       THEN Returning(t, "buffered")
       ELSE /\ pc' = [pc EXCEPT ![t] =
                 IF OverLimit(disk) /\ EvictMore(disk, queue)
                 THEN "b_evict" ELSE "b_put"]
            /\ UNCHANGED result
    /\ UNCHANGED <<cur, lastResp, running, shutdown, events,
                   logCount, cbState, failCount, consecFails, elapsed,
                   cbLock, bufOpen, queue, disk, flushLeft, flushItem,
                   flushResp, nextSeq>>
    /\ UNCHANGED <<project, pool, breaker, results, errors, line_buffer>>
    /\ UNCHANGED <<tailer, gcb, closes, ext, pacer, batch, codec, collector, drain>>

\* One iteration of the eviction loop: the oldest entry is discarded, the
\* size is read again and the loop condition is tested.
BufEvict(t) ==
    /\ pc[t] = "b_evict"
    /\ IF ~bufOpen \/ queue = <<>>
       THEN /\ pc' = [pc EXCEPT ![t] = "b_put"]
            /\ UNCHANGED <<queue, disk>>
       ELSE /\ queue' = Tail(queue)
            /\ \E d \in SizeAfterGet(Tail(queue)) :
                 /\ disk' = d
                 /\ pc' = [pc EXCEPT ![t] =
                      IF EvictMore(d, Tail(queue)) THEN "b_evict" ELSE "b_put"]
    /\ UNCHANGED <<cur, result, lastResp, running, shutdown, events,
                   logCount, cbState, failCount, consecFails, elapsed,
                   cbLock, bufOpen, flushLeft, flushItem, flushResp, nextSeq>>
    /\ UNCHANGED <<project, pool, breaker, results, errors, line_buffer>>
    /\ UNCHANGED <<tailer, gcb, closes, ext, pacer, batch, codec, collector, drain>>

\* _buffer.put(json.dumps(data)); send_to_listener then returns False.
BufPut(t) ==
    /\ pc[t] = "b_put"
    /\ IF ~bufOpen
       THEN UNCHANGED <<queue, disk, nextSeq, cur>>
       ELSE /\ queue' = Append(queue, [cur[t] EXCEPT !.seq = nextSeq])
            /\ disk' = SizeAfterPut(Append(queue, cur[t]))
            /\ cur' = [cur EXCEPT ![t].seq = nextSeq]
            /\ nextSeq' = nextSeq + 1
    /\ Returning(t, "buffered")
    /\ UNCHANGED <<lastResp, running, shutdown, events, logCount,
                   cbState, failCount, consecFails, elapsed, cbLock, bufOpen,
                   flushLeft, flushItem, flushResp>>
    /\ UNCHANGED <<project, pool, breaker, results, errors, line_buffer>>
    /\ UNCHANGED <<tailer, gcb, closes, ext, pacer, batch, codec, collector, drain>>

\* ------------------------------------------------------ flush_buffer
\* _collection_cycle's tail: flush when the breaker is not open and the
\* buffer holds entries; flush_buffer sets up its for loop.
FlushTest ==
    /\ pc["main"] = "c_flush"
    /\ IF ~is_circuit_open /\ bufOpen /\ Len(queue) > 0
       THEN /\ flushLeft' = Min(Len(queue), FlushMaxItems)
            /\ pc' = [pc EXCEPT !["main"] = "f_check"]
       ELSE /\ pc' = [pc EXCEPT !["main"] = "wait"]
            /\ UNCHANGED flushLeft
    /\ UNCHANGED <<cur, result, lastResp, running, shutdown, events,
                   logCount, cbState, failCount, consecFails, elapsed,
                   cbLock, bufOpen, queue, disk, flushItem, flushResp,
                   nextSeq>>
    /\ UNCHANGED <<project, pool, breaker, results, errors, line_buffer>>
    /\ UNCHANGED <<tailer, gcb, closes, ext, pacer, batch, codec, collector, drain>>

\* Top of one iteration: if is_circuit_open(): break
FlushCheck ==
    /\ pc["main"] = "f_check"
    /\ IF flushLeft = 0 \/ is_circuit_open
       THEN /\ pc' = [pc EXCEPT !["main"] = "wait"]
            /\ flushLeft' = 0
       ELSE /\ pc' = [pc EXCEPT !["main"] = "f_get"]
            /\ UNCHANGED flushLeft
    /\ UNCHANGED <<cur, result, lastResp, running, shutdown, events,
                   logCount, cbState, failCount, consecFails, elapsed,
                   cbLock, bufOpen, queue, disk, flushItem, flushResp,
                   nextSeq>>
    /\ UNCHANGED <<project, pool, breaker, results, errors, line_buffer>>
    /\ UNCHANGED <<tailer, gcb, closes, ext, pacer, batch, codec, collector, drain>>

\* _buffer.get(block=False), then requests.post is issued, outside the breaker.
FlushGet ==
    /\ pc["main"] = "f_get"
    /\ IF queue = <<>>
       THEN /\ pc' = [pc EXCEPT !["main"] = "wait"]
            /\ flushLeft' = 0
            /\ UNCHANGED <<queue, disk, flushItem>>
       ELSE /\ flushItem' = Head(queue)
            /\ queue' = Tail(queue)
            /\ disk' \in SizeAfterGet(Tail(queue))
            /\ pc' = [pc EXCEPT !["main"] = "f_post"]
            /\ UNCHANGED flushLeft
    /\ UNCHANGED <<cur, result, lastResp, running, shutdown, events,
                   logCount, cbState, failCount, consecFails, elapsed,
                   cbLock, bufOpen, flushResp, nextSeq>>
    /\ UNCHANGED <<project, pool, breaker, results, errors, line_buffer>>
    /\ UNCHANGED <<tailer, gcb, closes, ext, pacer, batch, codec, collector, drain>>

\* The listener answers the flush's POST with r.
FlushPost(r) ==
    /\ pc["main"] = "f_post"
    /\ flushResp' = r
    /\ pc' = [pc EXCEPT !["main"] = "f_resp"]
    /\ UNCHANGED <<cur, result, lastResp, running, shutdown, events,
                   logCount, cbState, failCount, consecFails, elapsed,
                   cbLock, bufOpen, queue, disk, flushLeft, flushItem,
                   nextSeq>>
    /\ UNCHANGED <<project, pool, breaker, results, errors, line_buffer>>
    /\ UNCHANGED <<tailer, gcb, closes, ext, pacer, batch, codec, collector, drain>>

\* flush_buffer acts on the answer: status 200 counts as sent, any other
\* status puts the entry back with put() and stops the flush, an exception
\* stops the flush.
FlushResp ==
    /\ pc["main"] = "f_resp"
    /\ flushItem' = NoEnv
    /\ flushResp' = "none"
    /\ IF FlushOk(flushResp)
       THEN /\ flushLeft' = flushLeft - 1
            /\ pc' = [pc EXCEPT !["main"] = "f_check"]
            /\ UNCHANGED <<queue, disk>>
       ELSE /\ flushLeft' = 0
            /\ pc' = [pc EXCEPT !["main"] = "wait"]
            /\ IF flushResp = "exc"
               THEN UNCHANGED <<queue, disk>>
               ELSE /\ queue' = Requeue(queue, flushItem)
                    /\ disk' = SizeAfterPut(Requeue(queue, flushItem))
    /\ UNCHANGED <<cur, result, lastResp, running, shutdown, events,
                   logCount, cbState, failCount, consecFails, elapsed,
                   cbLock, bufOpen, nextSeq>>
    /\ UNCHANGED <<project, pool, breaker, results, errors, line_buffer>>
    /\ UNCHANGED <<tailer, gcb, closes, ext, pacer, batch, codec, collector, drain>>

\* ------------------------------------------------ main thread (daemon)
\* close_pool: _pool.close() is called only when _pool is not None.
PoolCloses(p) == IF p THEN 1 ELSE 0

\* close_pool that closes the pool and keeps the reference to it.
PoolKept(p) == p

\* close_pool: after _pool.close() the module's _pool is set to None.
PoolAfterClose(p) == FALSE

\* close_buffer: _buffer is set to None only when it is not None.
BufferDrops(b) == IF b THEN 1 ELSE 0

\* _cleanup, from close_pool() on: what it leaves in closes.
AfterCleanup(c, p, b) ==
    [pool |-> c.pool + PoolCloses(p), buffer |-> c.buffer + BufferDrops(b)]

\* start(): create_pool(self.config) up to fetchone(): the module's _pool is
\* assigned, then SELECT 1 is executed; an exception is logged and raised
\* again, into the except clause of start().
CreatePool(o) ==
    /\ pc["main"] = "start_pool"
    /\ pool' = TRUE
    /\ pc' = [pc EXCEPT !["main"] =
                CASE o = "one" -> "pool_one"
                  [] o = "other" -> "pool_other"
                  [] OTHER -> "start_failed"]
    /\ UNCHANGED <<cur, result, lastResp, running, shutdown, events, logCount,
                   cbState, failCount, consecFails, elapsed, cbLock, bufOpen,
                   queue, disk, flushLeft, flushItem, flushResp, nextSeq,
                   project, breaker, results, errors, line_buffer>>
    /\ UNCHANGED <<tailer, gcb, closes, ext, pacer, batch, codec, collector, drain>>

\* create_pool, after fetchone(): if result and result[0] == 1 the pool is
\* logged as verified; in either case create_pool returns the pool.
VerifyPool ==
    /\ pc["main"] \in {"pool_one", "pool_other"}
    /\ pc' = [pc EXCEPT !["main"] = "start_buf"]
    /\ UNCHANGED <<cur, result, lastResp, running, shutdown, events, logCount,
                   cbState, failCount, consecFails, elapsed, cbLock, bufOpen,
                   queue, disk, flushLeft, flushItem, flushResp, nextSeq,
                   project, pool, breaker, results, errors, line_buffer>>
    /\ UNCHANGED <<tailer, gcb, closes, ext, pacer, batch, codec, collector, drain>>

\* start(), except clause: agent_startup_failed is logged, _cleanup() runs
\* (no log entries yet; close_pool; close_buffer) and the exception is raised
\* again; main() logs agent_failed, calls sys.exit(1) and its finally clause
\* calls stop().
StartFailed ==
    /\ pc["main"] = "start_failed"
    /\ closes' = AfterCleanup(closes, pool, bufOpen)
    /\ pool' = PoolAfterClose(pool)
    /\ bufOpen' = FALSE
    /\ pc' = [pc EXCEPT !["main"] = "stop"]
    /\ UNCHANGED <<cur, result, lastResp, running, shutdown, events, logCount,
                   cbState, failCount, consecFails, elapsed, cbLock,
                   queue, disk, flushLeft, flushItem, flushResp, nextSeq,
                   project, breaker, results, errors, line_buffer>>
    /\ UNCHANGED <<tailer, gcb, ext, pacer, batch, codec, collector, drain>>

\* start(): init_buffer(self.config)
InitBuffer ==
    /\ pc["main"] = "start_buf"
    /\ bufOpen' = TRUE
    /\ pc' = [pc EXCEPT !["main"] = "start_log"]
    /\ UNCHANGED <<cur, result, lastResp, running, shutdown, events, logCount,
                   cbState, failCount, consecFails, elapsed, cbLock,
                   queue, disk, flushLeft, flushItem, flushResp, nextSeq,
                   project, pool, breaker, results, errors, line_buffer>>
    /\ UNCHANGED <<tailer, gcb, closes, ext, pacer, batch, codec, collector, drain>>

\* start(): self.running = True, the log-parser thread is started and the
\* main thread enters _collection_loop.
StartLogParser ==
    /\ pc["main"] = "start_log"
    /\ running' = TRUE
    /\ pc' = [t \in Threads |-> IF t = "main" THEN "loop" ELSE "tail"]
    /\ UNCHANGED <<cur, result, lastResp, shutdown, events, logCount,
                   cbState, failCount, consecFails, elapsed, cbLock, bufOpen,
                   queue, disk, flushLeft, flushItem, flushResp, nextSeq,
                   project, pool, breaker, results, errors, line_buffer>>
    /\ UNCHANGED <<tailer, gcb, closes, ext, pacer, batch, codec, collector, drain>>

\* _collection_loop: while self.running
LoopTest ==
    /\ pc["main"] = "loop"
    /\ IF running
       THEN pc' = [pc EXCEPT !["main"] = "q_activity"]
       ELSE pc' = [pc EXCEPT !["main"] = "stop"]
    /\ UNCHANGED <<cur, result, lastResp, running, shutdown, events, logCount,
                   cbState, failCount, consecFails, elapsed, cbLock, bufOpen,
                   queue, disk, flushLeft, flushItem, flushResp, nextSeq>>
    /\ UNCHANGED <<project, pool, breaker, results, errors, line_buffer>>
    /\ UNCHANGED <<tailer, gcb, closes, ext, pacer, batch, codec, collector, drain>>

\* _collection_cycle: collect_pg_activity raises on a failure; the cycle
\* records it in errors and goes on with an empty result.
CollectActivity(o) ==
    /\ pc["main"] = "q_activity"
    /\ results' = [results EXCEPT !.pg_activity = (o = "rows")]
    /\ errors' = IF o = "error" THEN Append(errors, "pg_activity") ELSE errors
    /\ pc' = [pc EXCEPT !["main"] = NextSampler(o, "q_statements")]
    /\ UNCHANGED <<cur, result, lastResp, running, shutdown, events, logCount,
                   cbState, failCount, consecFails, elapsed, cbLock, bufOpen,
                   queue, disk, flushLeft, flushItem, flushResp, nextSeq,
                   project, pool, breaker, line_buffer>>
    /\ UNCHANGED <<tailer, gcb, closes, ext, pacer, batch, codec, collector, drain>>

\* _collection_cycle: collect_pg_statements logs a failure and returns [].
CollectStatements(o) ==
    /\ pc["main"] = "q_statements"
    /\ results' = [results EXCEPT !.pg_statements = (o = "rows")]
    /\ pc' = [pc EXCEPT !["main"] = NextSampler(o, "q_locks")]
    /\ UNCHANGED <<cur, result, lastResp, running, shutdown, events, logCount,
                   cbState, failCount, consecFails, elapsed, cbLock, bufOpen,
                   queue, disk, flushLeft, flushItem, flushResp, nextSeq,
                   project, pool, breaker, errors, line_buffer>>
    /\ UNCHANGED <<tailer, gcb, closes, ext, pacer, batch, codec, collector, drain>>

\* _collection_cycle: detect_blocking_queries logs a failure and returns [].
DetectLocks(o) ==
    /\ pc["main"] = "q_locks"
    /\ results' = [results EXCEPT !.locks = (o = "rows")]
    /\ pc' = [pc EXCEPT !["main"] = NextSampler(o, "q_metrics")]
    /\ UNCHANGED <<cur, result, lastResp, running, shutdown, events, logCount,
                   cbState, failCount, consecFails, elapsed, cbLock, bufOpen,
                   queue, disk, flushLeft, flushItem, flushResp, nextSeq,
                   project, pool, breaker, errors, line_buffer>>
    /\ UNCHANGED <<tailer, gcb, closes, ext, pacer, batch, codec, collector, drain>>

\* _collection_cycle: collect_system_metrics logs a failure and returns a
\* dict with an error key, so its result is never empty.
CollectMetrics(o) ==
    /\ pc["main"] = "q_metrics"
    /\ results' = [results EXCEPT !.system_metrics = TRUE]
    /\ pc' = [pc EXCEPT !["main"] = NextSampler(o, "c_activity")]
    /\ UNCHANGED <<cur, result, lastResp, running, shutdown, events, logCount,
                   cbState, failCount, consecFails, elapsed, cbLock, bufOpen,
                   queue, disk, flushLeft, flushItem, flushResp, nextSeq,
                   project, pool, breaker, errors, line_buffer>>
    /\ UNCHANGED <<tailer, gcb, closes, ext, pacer, batch, codec, collector, drain>>

\* _collection_cycle: the summary is logged, the last read of errors; then the
\* pg_stat_activity envelope, only for a non-empty result, which is not read
\* again.
SendActivity ==
    /\ pc["main"] = "c_activity"
    /\ errors' = <<>>
    /\ results' = [results EXCEPT !.pg_activity = FALSE]
    /\ IF results.pg_activity
       THEN /\ events < MaxEvents
            /\ events' = events + 1
            /\ StartSend("main", "pg_stat_activity")
       ELSE /\ pc' = [pc EXCEPT !["main"] = "c_statements"]
            /\ UNCHANGED <<cur, events, breaker>>
    /\ UNCHANGED <<result, lastResp, running, shutdown,
                   logCount, cbState, failCount, consecFails, elapsed,
                   cbLock, bufOpen, queue, disk, flushLeft, flushItem,
                   flushResp, nextSeq>>
    /\ UNCHANGED <<project, pool, line_buffer>>
    /\ UNCHANGED <<tailer, gcb, closes, ext, pacer, batch, codec, collector, drain>>

\* _collection_cycle: the pg_stat_statements envelope, only for a non-empty
\* result, which is not read again.
SendStatements ==
    /\ pc["main"] = "c_statements"
    /\ results' = [results EXCEPT !.pg_statements = FALSE]
    /\ IF results.pg_statements
       THEN /\ events < MaxEvents
            /\ events' = events + 1
            /\ StartSend("main", "pg_stat_statements")
       ELSE /\ pc' = [pc EXCEPT !["main"] = "c_locks"]
            /\ UNCHANGED <<cur, events, breaker>>
    /\ UNCHANGED <<result, lastResp, running, shutdown,
                   logCount, cbState, failCount, consecFails, elapsed,
                   cbLock, bufOpen, queue, disk, flushLeft, flushItem,
                   flushResp, nextSeq>>
    /\ UNCHANGED <<project, pool, errors, line_buffer>>
    /\ UNCHANGED <<tailer, gcb, closes, ext, pacer, batch, codec, collector, drain>>

\* _collection_cycle: the pg_locks envelope, always.
SendLocks ==
    /\ pc["main"] = "c_locks"
    /\ events < MaxEvents
    /\ events' = events + 1
    /\ StartSend("main", "pg_locks")
    /\ UNCHANGED <<result, lastResp, running, shutdown,
                   logCount, cbState, failCount, consecFails, elapsed,
                   cbLock, bufOpen, queue, disk, flushLeft, flushItem,
                   flushResp, nextSeq>>
    /\ UNCHANGED <<project, pool, results, errors, line_buffer>>
    /\ UNCHANGED <<tailer, gcb, closes, ext, pacer, batch, codec, collector, drain>>

\* _collection_cycle: the system_metrics envelope, always; results is not read
\* again.
SendMetrics ==
    /\ pc["main"] = "c_metrics"
    /\ events < MaxEvents
    /\ events' = events + 1
    /\ results' = NoResults
    /\ StartSend("main", "system_metrics")
    /\ UNCHANGED <<result, lastResp, running, shutdown,
                   logCount, cbState, failCount, consecFails, elapsed,
                   cbLock, bufOpen, queue, disk, flushLeft, flushItem,
                   flushResp, nextSeq>>
    /\ UNCHANGED <<project, pool, errors, line_buffer>>
    /\ UNCHANGED <<tailer, gcb, closes, ext, pacer, batch, codec, collector, drain>>

\* _collection_cycle: the breaker is not open and get_buffer_stats (or
\* flush_buffer) calls _buffer.qsize() outside any try; the query fails and
\* the exception leaves _collection_cycle.
CycleRaises ==
    /\ pc["main"] = "c_flush"
    /\ ~is_circuit_open
    /\ bufOpen
    /\ pc' = [pc EXCEPT !["main"] = "c_failed"]
    /\ UNCHANGED <<cur, result, lastResp, running, shutdown, events,
                   logCount, cbState, failCount, consecFails, elapsed,
                   cbLock, bufOpen, queue, disk, flushLeft, flushItem,
                   flushResp, nextSeq>>
    /\ UNCHANGED <<project, pool, breaker, results, errors, line_buffer>>
    /\ UNCHANGED <<tailer, gcb, closes, ext, pacer, batch, codec, collector, drain>>

\* _collection_loop: except Exception: the failure of the cycle is logged.
CycleFailed ==
    /\ pc["main"] = "c_failed"
    /\ pc' = [pc EXCEPT !["main"] = AfterCycleError]
    /\ UNCHANGED <<cur, result, lastResp, running, shutdown, events,
                   logCount, cbState, failCount, consecFails, elapsed,
                   cbLock, bufOpen, queue, disk, flushLeft, flushItem,
                   flushResp, nextSeq>>
    /\ UNCHANGED <<project, pool, breaker, results, errors, line_buffer>>
    /\ UNCHANGED <<tailer, gcb, closes, ext, pacer, batch, codec, collector, drain>>

\* _collection_loop: self._shutdown_event.wait(timeout=sleep_time)
Wait ==
    /\ pc["main"] = "wait"
    /\ pc' = [pc EXCEPT !["main"] = AfterWait(shutdown)]
    /\ UNCHANGED <<cur, result, lastResp, running, shutdown, events,
                   logCount, cbState, failCount, consecFails, elapsed,
                   cbLock, bufOpen, queue, disk, flushLeft, flushItem,
                   flushResp, nextSeq>>
    /\ UNCHANGED <<project, pool, breaker, results, errors, line_buffer>>
    /\ UNCHANGED <<tailer, gcb, closes, ext, pacer, batch, codec, collector, drain>>

\* _handle_shutdown: SIGTERM or SIGINT arrives.
HandleShutdown ==
    /\ ~shutdown
    /\ running' = FALSE
    /\ shutdown' = TRUE
    /\ UNCHANGED <<pc, cur, result, lastResp, events, logCount,
                   cbState, failCount, consecFails, elapsed, cbLock, bufOpen,
                   queue, disk, flushLeft, flushItem, flushResp, nextSeq>>
    /\ UNCHANGED <<project, pool, breaker, results, errors, line_buffer>>
    /\ UNCHANGED <<tailer, gcb, closes, ext, pacer, batch, codec, collector, drain>>

\* stop(), called by main() once start() has returned.
Stop ==
    /\ pc["main"] = "stop"
    /\ running' = FALSE
    /\ shutdown' = TRUE
    /\ pc' = [pc EXCEPT !["main"] = "cleanup_log"]
    /\ UNCHANGED <<cur, result, lastResp, events, logCount, cbState,
                   failCount, consecFails, elapsed, cbLock, bufOpen, queue,
                   disk, flushLeft, flushItem, flushResp, nextSeq>>
    /\ UNCHANGED <<project, pool, breaker, results, errors, line_buffer>>
    /\ UNCHANGED <<tailer, gcb, closes, ext, pacer, batch, codec, collector, drain>>

\* _cleanup: flush remaining log entries through _send_log_entries.
CleanupLog ==
    /\ pc["main"] = "cleanup_log"
    /\ IF logCount > 0
       THEN /\ logCount' = 0
            /\ StartSend("main", "pg_log")
       ELSE /\ pc' = [pc EXCEPT !["main"] = "cleanup_pool"]
            /\ UNCHANGED <<cur, logCount, breaker>>
    /\ UNCHANGED <<result, lastResp, running, shutdown, events,
                   cbState, failCount, consecFails, elapsed, cbLock, bufOpen,
                   queue, disk, flushLeft, flushItem, flushResp, nextSeq>>
    /\ UNCHANGED <<project, pool, results, errors, line_buffer>>
    /\ UNCHANGED <<tailer, gcb, closes, ext, pacer, batch, codec, collector, drain>>

\* _cleanup: close_pool()
CleanupPool ==
    /\ pc["main"] = "cleanup_pool"
    /\ closes' = [closes EXCEPT !.pool = @ + PoolCloses(pool)]
    /\ pool' = PoolAfterClose(pool)
    /\ pc' = [pc EXCEPT !["main"] = "cleanup_buf"]
    /\ UNCHANGED <<cur, result, lastResp, running, shutdown, events,
                   logCount, cbState, failCount, consecFails, elapsed,
                   cbLock, bufOpen, queue, disk, flushLeft, flushItem,
                   flushResp, nextSeq>>
    /\ UNCHANGED <<project, breaker, results, errors, line_buffer>>
    /\ UNCHANGED <<tailer, gcb, ext, pacer, batch, codec, collector, drain>>

\* _cleanup: close_buffer() sets the module's _buffer to None.
CloseBuffer ==
    /\ pc["main"] = "cleanup_buf"
    /\ closes' = [closes EXCEPT !.buffer = @ + BufferDrops(bufOpen)]
    /\ bufOpen' = FALSE
    /\ pc' = [pc EXCEPT !["main"] = "done"]
    /\ UNCHANGED <<cur, result, lastResp, running, shutdown, events,
                   logCount, cbState, failCount, consecFails, elapsed,
                   cbLock, queue, disk, flushLeft, flushItem, flushResp,
                   nextSeq>>
    /\ UNCHANGED <<project, pool, breaker, results, errors, line_buffer>>
    /\ UNCHANGED <<tailer, gcb, ext, pacer, batch, codec, collector, drain>>

\* main(): stop() has returned and main() returns; the interpreter exits and
\* ends the log-parser thread, a daemon thread, wherever it is.
Exit ==
    /\ pc["main"] = "done"
    /\ pc' = [t \in Threads |->
                IF t = "main" THEN "exited"
                ELSE IF pc[t] = "done" THEN "done" ELSE "killed"]
    /\ UNCHANGED <<cur, result, lastResp, running, shutdown, events, logCount,
                   cbState, failCount, consecFails, elapsed, cbLock, bufOpen,
                   queue, disk, flushLeft, flushItem, flushResp, nextSeq,
                   project, pool, breaker, results, errors, line_buffer>>
    /\ UNCHANGED <<tailer, gcb, closes, ext, pacer, batch, codec, collector, drain>>

\* -------------------------------------------------- log parser thread
\* parse_log_line: the entry it builds has the keys timestamp, pid, level and
\* message (and user, database, duration_ms, statement when present); no key
\* correlation_id, whatever the record holds.
HasCorrelationId(rec) == FALSE

\* tail_postgres_log: a timestamped line arrives while line_buffer is empty;
\* it is appended and nothing is yielded.
TailLine(rec) ==
    /\ pc["log"] = "tail"
    /\ line_buffer = "none"
    /\ events < MaxEvents
    /\ events' = events + 1
    /\ line_buffer' = rec
    /\ UNCHANGED <<pc, cur, result, lastResp, running, shutdown, logCount,
                   cbState, failCount, consecFails, elapsed, cbLock, bufOpen,
                   queue, disk, flushLeft, flushItem, flushResp, nextSeq,
                   project, pool, breaker, results, errors>>
    /\ UNCHANGED <<tailer, gcb, closes, ext, pacer, batch, codec, collector, drain>>

\* A run of LogMaxEntries timestamped lines arrives before shutdown: each but
\* the first completes the record before it, and the worker adds the
\* LogMaxEntries - 1 entries to the collector, one short of a full batch.
TailBurst ==
    /\ pc["log"] = "tail"
    /\ line_buffer = "none"
    /\ logCount = 0
    /\ ~shutdown
    /\ line_buffer' = "plain"
    /\ logCount' = LogMaxEntries - 1
    /\ UNCHANGED <<pc, cur, result, lastResp, running, shutdown, events,
                   cbState, failCount, consecFails, elapsed, cbLock, bufOpen,
                   queue, disk, flushLeft, flushItem, flushResp, nextSeq,
                   project, pool, breaker, results, errors>>
    /\ UNCHANGED <<tailer, gcb, closes, ext, pacer, batch, codec, collector, drain>>

\* tail_postgres_log: a timestamped line arrives while line_buffer holds a
\* record; the record is parsed and yielded and the new line starts the next
\* one. log_parser_worker: stops if shutdown is set, else adds the entry to the
\* collector and sends the batch when it is full or the entry has a
\* correlation_id.
LogEntry ==
    /\ pc["log"] = "tail"
    /\ line_buffer # "none"
    /\ events < MaxEvents
    /\ events' = events + 1
    /\ line_buffer' = "plain"
    /\ IF shutdown
       THEN /\ pc' = [pc EXCEPT !["log"] = "done"]
            /\ UNCHANGED <<cur, logCount, breaker>>
       ELSE IF should_flush(logCount + 1) \/ HasCorrelationId(line_buffer)
            THEN /\ logCount' = 0
                 /\ StartSend("log", "pg_log")
            ELSE /\ logCount' = logCount + 1
                 /\ UNCHANGED <<pc, cur, breaker>>
    /\ UNCHANGED <<result, lastResp, running, shutdown, cbState,
                   failCount, consecFails, elapsed, cbLock, bufOpen, queue,
                   disk, flushLeft, flushItem, flushResp, nextSeq>>
    /\ UNCHANGED <<project, pool, results, errors>>
    /\ UNCHANGED <<tailer, gcb, closes, ext, pacer, batch, codec, collector, drain>>

\* ------------------------------------------------------ specification
Next ==
    \/ \E o \in PoolChecks : CreatePool(o)
    \/ VerifyPool
    \/ StartFailed
    \/ InitBuffer
    \/ StartLogParser
    \/ LoopTest
    \/ \E o \in Outcomes : CollectActivity(o)
    \/ \E o \in Outcomes : CollectStatements(o)
    \/ \E o \in Outcomes : DetectLocks(o)
    \/ \E o \in Outcomes : CollectMetrics(o)
    \/ SendActivity
    \/ SendStatements
    \/ SendLocks
    \/ SendMetrics
    \/ FlushTest
    \/ FlushCheck
    \/ FlushGet
    \/ \E r \in Responses : FlushPost(r)
    \/ FlushResp
    \/ CycleRaises
    \/ CycleFailed
    \/ Wait
    \/ HandleShutdown
    \/ Stop
    \/ CleanupLog
    \/ CleanupPool
    \/ CloseBuffer
    \/ Exit
    \/ \E rec \in Records : TailLine(rec)
    \/ TailBurst
    \/ LogEntry
    \/ \E t \in Threads : SendCall(t)
    \/ \E t \in Threads, r \in Responses : SendPost(t, r)
    \/ \E t \in Threads : SendReturn(t)
    \/ TimeoutElapses
    \/ \E t \in Threads : BufCheck(t)
    \/ \E t \in Threads : BufEvict(t)
    \/ \E t \in Threads : BufPut(t)

Spec == Init /\ [][Next]_vars

\* The steps of the main thread, and the steps the log-parser thread takes on
\* its own once the tailer has yielded an entry. The arrival of log lines, of
\* signals and of the breaker's timeout is left to the environment.
MainStep ==
    \/ \E o \in PoolChecks : CreatePool(o)
    \/ VerifyPool \/ StartFailed
    \/ InitBuffer \/ StartLogParser \/ LoopTest
    \/ \E o \in Outcomes : CollectActivity(o)
    \/ \E o \in Outcomes : CollectStatements(o)
    \/ \E o \in Outcomes : DetectLocks(o)
    \/ \E o \in Outcomes : CollectMetrics(o)
    \/ SendActivity \/ SendStatements \/ SendLocks \/ SendMetrics
    \/ FlushTest \/ FlushCheck \/ FlushGet
    \/ \E r \in Responses : FlushPost(r)
    \/ FlushResp \/ CycleRaises \/ CycleFailed \/ Wait \/ Stop \/ CleanupLog \/ CleanupPool \/ CloseBuffer
    \/ Exit
    \/ SendCall("main")
    \/ \E r \in Responses : SendPost("main", r)
    \/ SendReturn("main")
    \/ BufCheck("main") \/ BufEvict("main") \/ BufPut("main")

LogStep ==
    \/ SendCall("log")
    \/ \E r \in Responses : SendPost("log", r)
    \/ SendReturn("log")
    \/ BufCheck("log") \/ BufEvict("log") \/ BufPut("log")

\* Both threads are scheduled by the operating system: a thread that can take
\* a step eventually takes one.
FairSpec == Spec /\ WF_vars(MainStep) /\ WF_vars(LogStep)

\* ------------------------------------------- the tailer, line by line
\* The variables of the pipeline, which the tailer and get_circuit_breaker
\* taken alone do not touch.
pipeVars == <<pc, cur, result, lastResp, running, shutdown, events,
              logCount, cbState, failCount, consecFails, elapsed, cbLock,
              bufOpen, queue, disk, flushLeft, flushItem, flushResp, nextSeq,
              project, pool, breaker, results, errors, line_buffer, closes>>

RECURSIVE TotalLines(_)
\* Lines written so far, over all files of the log.
TotalLines(fs) == IF fs = <<>> THEN 0 ELSE Len(Head(fs)) + TotalLines(Tail(fs))

\* The line readline() returns: the file it is read from (by inode), its
\* number in that file and its kind.
Line(ino, no) == [ino |-> ino, no |-> no, kind |-> tailer.files[ino][no]]

\* timestamp_pattern.match(line)
IsTimestamped(line) == line.kind \in {"entry", "odd"}

\* parse_log_line returns None.
NoEntry == [lines |-> <<>>]

\* parse_log_line(''.join(line_buffer)): LOG_LINE_PATTERN and LOG_LINE_SIMPLE
\* are matched at the start of the chunk, and their message group (.*) ends
\* at the first newline, so the entry is built from the first physical line
\* of the chunk alone; None when that line matches neither pattern.
parse_log_line(chunk) ==
    IF chunk[1].kind = "entry" THEN [lines |-> <<chunk[1]>>] ELSE NoEntry

\* if parsed: yield parsed -- for the chunk held in line_buffer.
Yielded(chunk) ==
    IF chunk # <<>> /\ parse_log_line(chunk) # NoEntry
    THEN Append(tailer.yielded, parse_log_line(chunk))
    ELSE tailer.yielded

\* Mutant of ReopenOffset: the reopened file is read from its end.
ReopenAtEnd(file) == Len(file)

\* f = open(log_path, 'r', ...) with no seek: reading starts at offset 0.
ReopenOffset(file) == 0

\* PostgreSQL writes one more line to the file the log path names.
WriteLine(k) ==
    /\ tailer.path_inode # 0
    /\ TotalLines(tailer.files) < MaxLines
    /\ tailer' = [tailer EXCEPT !.files[tailer.path_inode] = Append(@, k)]
    /\ UNCHANGED <<pipeVars, gcb, ext, pacer, batch, codec, collector, drain>>

\* Rotation, first half: the file is renamed away and the path names nothing.
RemoveLog ==
    /\ tailer.path_inode # 0
    /\ Len(tailer.files) < MaxFiles
    /\ tailer' = [tailer EXCEPT !.path_inode = 0]
    /\ UNCHANGED <<pipeVars, gcb, ext, pacer, batch, codec, collector, drain>>

\* Rotation, second half: a new, empty file is created at the path.
CreateLog ==
    /\ tailer.path_inode = 0
    /\ tailer' = [tailer EXCEPT !.files = Append(@, <<>>),
                                !.path_inode = Len(tailer.files) + 1]
    /\ UNCHANGED <<pipeVars, gcb, ext, pacer, batch, codec, collector, drain>>

\* Rotation in one step: a new, empty file is renamed over the path.
ReplaceLog ==
    /\ tailer.path_inode # 0
    /\ Len(tailer.files) < MaxFiles
    /\ tailer' = [tailer EXCEPT !.files = Append(@, <<>>),
                                !.path_inode = Len(tailer.files) + 1]
    /\ UNCHANGED <<pipeVars, gcb, ext, pacer, batch, codec, collector, drain>>

\* tail_postgres_log: the file exists; it is opened, the handle is moved to
\* its end and its inode is recorded.
TailOpen ==
    /\ tailer.pc = "start"
    /\ tailer.path_inode # 0
    /\ tailer' = [tailer EXCEPT
                    !.f = [ino |-> tailer.path_inode,
                           pos |-> Len(tailer.files[tailer.path_inode])],
                    !.last_inode = tailer.path_inode,
                    !.pc = "reading"]
    /\ UNCHANGED <<pipeVars, gcb, ext, pacer, batch, codec, collector, drain>>

\* readline() returns a line: a timestamped line met with a non-empty
\* line_buffer has the buffered chunk parsed and yielded and starts a new
\* chunk; any other line is appended.
TailRead ==
    /\ tailer.pc = "reading"
    /\ tailer.f # NoHandle
    /\ tailer.f.pos < Len(tailer.files[tailer.f.ino])
    /\ LET line == Line(tailer.f.ino, tailer.f.pos + 1) IN
         IF IsTimestamped(line) /\ tailer.line_buffer # <<>>
         THEN tailer' = [tailer EXCEPT !.f.pos = @ + 1,
                                       !.yielded = Yielded(tailer.line_buffer),
                                       !.line_buffer = <<line>>]
         ELSE tailer' = [tailer EXCEPT !.f.pos = @ + 1,
                                       !.line_buffer = Append(@, line)]
    /\ UNCHANGED <<pipeVars, gcb, ext, pacer, batch, codec, collector, drain>>

\* readline() returns nothing and os.stat(log_path) gives another inode than
\* last_inode: the buffered chunk is parsed and yielded, line_buffer is
\* emptied, the handle is closed and the path is opened again.
TailRotated ==
    /\ tailer.pc = "reading"
    /\ tailer.f # NoHandle
    /\ tailer.f.pos = Len(tailer.files[tailer.f.ino])
    /\ tailer.path_inode # 0
    /\ tailer.path_inode # tailer.last_inode
    /\ tailer' = [tailer EXCEPT
                    !.yielded = Yielded(tailer.line_buffer),
                    !.line_buffer = <<>>,
                    !.f = [ino |-> tailer.path_inode,
                           pos |-> ReopenOffset(tailer.files[tailer.path_inode])],
                    !.last_inode = tailer.path_inode]
    /\ UNCHANGED <<pipeVars, gcb, ext, pacer, batch, codec, collector, drain>>

\* readline() returns nothing and os.stat(log_path) raises FileNotFoundError:
\* the handle is closed and the tailer waits for the path; line_buffer is
\* left as it is.
TailFileMissing ==
    /\ tailer.pc = "reading"
    /\ tailer.f # NoHandle
    /\ tailer.f.pos = Len(tailer.files[tailer.f.ino])
    /\ tailer.path_inode = 0
    /\ tailer' = [tailer EXCEPT !.f = NoHandle, !.pc = "waiting"]
    /\ UNCHANGED <<pipeVars, gcb, ext, pacer, batch, codec, collector, drain>>

\* The path exists again: it is opened and its inode is recorded.
TailReopen ==
    /\ tailer.pc = "waiting"
    /\ tailer.path_inode # 0
    /\ tailer' = [tailer EXCEPT
                    !.f = [ino |-> tailer.path_inode,
                           pos |-> ReopenOffset(tailer.files[tailer.path_inode])],
                    !.last_inode = tailer.path_inode,
                    !.pc = "reading"]
    /\ UNCHANGED <<pipeVars, gcb, ext, pacer, batch, codec, collector, drain>>

\* readline() or os.stat(log_path) raises OSError: the outer except clause
\* is entered with the handle still open.
TailReadFails ==
    /\ tailer.pc = "reading"
    /\ tailer.f # NoHandle
    /\ tailer.io_errors < MaxIoErrors
    /\ tailer' = [tailer EXCEPT !.io_errors = @ + 1, !.pc = "error"]
    /\ UNCHANGED <<pipeVars, gcb, ext, pacer, batch, codec, collector, drain>>

\* Rotation is detected, the buffered chunk is yielded, the handle is closed,
\* and open(log_path) raises an error other than FileNotFoundError (the new
\* file cannot be read yet): f still names the closed handle and last_inode
\* is not updated.
TailRotatedOpenFails ==
    /\ tailer.pc = "reading"
    /\ tailer.f # NoHandle
    /\ tailer.f.pos = Len(tailer.files[tailer.f.ino])
    /\ tailer.path_inode # 0
    /\ tailer.path_inode # tailer.last_inode
    /\ tailer.io_errors < MaxIoErrors
    /\ tailer' = [tailer EXCEPT
                    !.yielded = Yielded(tailer.line_buffer),
                    !.line_buffer = <<>>,
                    !.f = NoHandle,
                    !.io_errors = @ + 1,
                    !.pc = "error"]
    /\ UNCHANGED <<pipeVars, gcb, ext, pacer, batch, codec, collector, drain>>

\* The path exists again and open(log_path), in the handler of
\* FileNotFoundError, raises: the exception leaves the handler for the
\* outer except clause, f still names the closed handle.
TailReopenFails ==
    /\ tailer.pc = "waiting"
    /\ tailer.path_inode # 0
    /\ tailer.io_errors < MaxIoErrors
    /\ tailer' = [tailer EXCEPT !.io_errors = @ + 1, !.pc = "error"]
    /\ UNCHANGED <<pipeVars, gcb, ext, pacer, batch, codec, collector, drain>>

\* f.readline() on a closed handle raises ValueError, which the outer
\* except clause catches.
TailReadClosed ==
    /\ tailer.pc = "reading"
    /\ tailer.f = NoHandle
    /\ tailer' = [tailer EXCEPT !.pc = "error"]
    /\ UNCHANGED <<pipeVars, gcb, ext, pacer, batch, codec, collector, drain>>

\* except Exception: log_tail_error is logged, time.sleep(1), and the while
\* loop goes round to f.readline().
TailRetry ==
    /\ tailer.pc = "error"
    /\ tailer' = [tailer EXCEPT !.pc = "reading"]
    /\ UNCHANGED <<pipeVars, gcb, ext, pacer, batch, codec, collector, drain>>

\* The steps of tail_postgres_log itself.
TailerStep ==
    \/ TailOpen
    \/ TailRead
    \/ TailRotated
    \/ TailFileMissing
    \/ TailReopen
    \/ TailReadFails
    \/ TailRotatedOpenFails
    \/ TailReopenFails
    \/ TailReadClosed
    \/ TailRetry

TailNext ==
    \/ \E k \in LineKinds : WriteLine(k)
    \/ RemoveLog
    \/ CreateLog
    \/ ReplaceLog
    \/ TailOpen
    \/ TailRead
    \/ TailRotated
    \/ TailFileMissing
    \/ TailReopen
    \/ TailReadFails
    \/ TailRotatedOpenFails
    \/ TailReopenFails
    \/ TailReadClosed
    \/ TailRetry

\* tail_postgres_log next to a log that is written and rotated.
TailSpec == Init /\ [][TailNext]_vars

\* The log thread is scheduled: a step the tailer can take is taken. What is
\* written to the log, rotations and failures are left to the environment.
TailFairSpec == TailSpec /\ WF_vars(TailerStep)

\* ------------------------------- get_circuit_breaker in the two threads
\* send_to_listener is called and get_circuit_breaker tests _breaker is None.
GcbTest(t) ==
    /\ gcb.pc[t] = "idle"
    /\ gcb.calls < MaxCalls
    /\ gcb' = [gcb EXCEPT !.calls = @ + 1,
                          !.pc[t] = IF gcb.global = 0 THEN "create"
                                    ELSE "return"]
    /\ UNCHANGED <<pipeVars, tailer, ext, pacer, batch, codec, collector, drain>>

\* _breaker = CircuitBreaker(...): a new breaker, closed and with no counted
\* failure, becomes the module's breaker.
GcbCreate(t) ==
    /\ gcb.pc[t] = "create"
    /\ gcb' = [gcb EXCEPT
                 !.instances = Append(@, [state |-> "closed", fails |-> 0]),
                 !.global = Len(gcb.instances) + 1,
                 !.pc[t] = "return"]
    /\ UNCHANGED <<pipeVars, tailer, ext, pacer, batch, codec, collector, drain>>

\* return _breaker: send_to_listener keeps the module's breaker of this
\* moment in its local variable.
GcbReturn(t) ==
    /\ gcb.pc[t] = "return"
    /\ gcb' = [gcb EXCEPT !.breaker[t] = gcb.global, !.pc[t] = "call"]
    /\ UNCHANGED <<pipeVars, tailer, ext, pacer, batch, codec, collector, drain>>

\* _send() through the local breaker, the listener answering r: an open
\* breaker rejects the call, a failure is counted and may trip the breaker,
\* a success resets the count. send_to_listener returns.
GcbCall(t, r) ==
    /\ gcb.pc[t] = "call"
    /\ LET b == gcb.breaker[t]
           old == gcb.instances[b]
           new == IF old.state = "open" THEN old
                  ELSE IF Raises(r)
                       THEN [state |-> IF Trips(old.fails + 1) THEN "open"
                                       ELSE "closed",
                             fails |-> old.fails + 1]
                       ELSE [state |-> "closed",
                             fails |-> CountAfterSuccess(old.fails)]
       IN gcb' = [gcb EXCEPT !.instances[b] = new,
                             !.breaker[t] = 0,
                             !.pc[t] = "idle"]
    /\ UNCHANGED <<pipeVars, tailer, ext, pacer, batch, codec, collector, drain>>

BreakerNext ==
    \/ \E t \in Threads : GcbTest(t)
    \/ \E t \in Threads : GcbCreate(t)
    \/ \E t \in Threads : GcbReturn(t)
    \/ \E t \in Threads, r \in {"200", "503"} : GcbCall(t, r)

\* The collection thread and the log thread calling send_to_listener.
BreakerSpec == Init /\ [][BreakerNext]_vars

\* ------------------------------------- the pg_stat_statements check
\* check_pg_stat_statements and collect_pg_statements, both called on the main
\* thread only: once by start(), then once per collection cycle.
\* check_pg_stat_statements returns to its caller: start() goes on to the
\* collection loop, collect_pg_statements to its test of the result.
ExtReturn(caller) == IF caller = "start" THEN "loop" ELSE "checked"

\* _collection_cycle calls collect_pg_statements(pool), which calls
\* check_pg_stat_statements(pool).
ExtTick ==
    /\ ext.pc = "loop"
    /\ Len(ext.returned) < MaxTicks
    /\ ext' = [ext EXCEPT !.pc = "start", !.caller = "collect"]
    /\ UNCHANGED <<pipeVars, tailer, gcb, pacer, batch, codec, collector, drain>>

\* check_pg_stat_statements: a flag that is not None is returned as it is;
\* otherwise the try block is entered.
ExtTest ==
    /\ ext.pc = "start"
    /\ ext' = [ext EXCEPT !.pc = IF ext.available # "None"
                                 THEN ExtReturn(ext.caller) ELSE "try"]
    /\ UNCHANGED <<pipeVars, tailer, gcb, pacer, batch, codec, collector, drain>>

\* check_pg_stat_statements, inside "with pool.connection()": the count of
\* pg_extension rows is fetched and the flag assigned from it, or getting
\* the connection or the query raises.
ExtQuery(o) ==
    /\ ext.pc = "try"
    /\ ext' = IF o = "raises"
              THEN [ext EXCEPT !.pc = "except"]
              ELSE [ext EXCEPT !.available = IF o = "present" THEN "True"
                                                              ELSE "False",
                               !.writes = @ + 1,
                               !.pc = "assigned"]
    /\ UNCHANGED <<pipeVars, tailer, gcb, pacer, batch, codec, collector, drain>>

\* check_pg_stat_statements, after the assignment: the two with blocks are
\* left (the cursor is closed, the transaction committed and the connection
\* given back), the result is logged and the flag returned; or leaving the
\* with blocks raises.
ExtLeave(o) ==
    /\ ext.pc = "assigned"
    /\ ext' = [ext EXCEPT !.pc = IF o = "raises" THEN "except"
                                 ELSE ExtReturn(ext.caller)]
    /\ UNCHANGED <<pipeVars, tailer, gcb, pacer, batch, codec, collector, drain>>

\* check_pg_stat_statements, except clause: the error is logged, the flag is
\* set to False and False returned.
ExtExcept ==
    /\ ext.pc = "except"
    /\ ext' = [ext EXCEPT !.available = "False", !.writes = @ + 1,
                          !.pc = ExtReturn(ext.caller)]
    /\ UNCHANGED <<pipeVars, tailer, gcb, pacer, batch, codec, collector, drain>>

\* collect_pg_statements: "if not check_pg_stat_statements(pool): return []";
\* otherwise pg_stat_statements is queried and the rows, or [] after an
\* error, are returned.
ExtCollect(o) ==
    /\ ext.pc = "checked"
    /\ ext' = IF ext.available # "True"
              THEN [ext EXCEPT !.returned = Append(@, "skipped"),
                               !.pc = "loop"]
              ELSE [ext EXCEPT !.returned = Append(@, o),
                               !.queried = @ + 1,
                               !.pc = "loop"]
    /\ UNCHANGED <<pipeVars, tailer, gcb, pacer, batch, codec, collector, drain>>

StatementsNext ==
    \/ ExtTick
    \/ ExtTest
    \/ \E o \in {"present", "absent", "raises"} : ExtQuery(o)
    \/ \E o \in {"returns", "raises"} : ExtLeave(o)
    \/ ExtExcept
    \/ \E o \in Outcomes : ExtCollect(o)

StatementsSpec == Init /\ [][StatementsNext]_vars

\* ------------------------------------------------------ tick pacing
\* _collection_loop with the time its cycles take: time.time() is pacer.now,
\* in seconds; a cycle takes between 0 and MaxDuration seconds.
Max(a, b) == IF a > b THEN a ELSE b

\* A loop that sleeps the whole interval after every cycle.
SleepWholeInterval(elapsed_s) == IntervalS

\* _collection_loop: sleep_time = max(0, collection_interval_s - elapsed)
SleepTime(elapsed_s) == Max(0, IntervalS - elapsed_s)

\* "while self.running:" finds the flag set, the loop ends; otherwise
\* cycle_start = time.time() and _collection_cycle is called.
PaceTest ==
    /\ pacer.pc = "test"
    /\ pacer' = IF pacer.stop
                THEN [pacer EXCEPT !.pc = "stopped"]
                ELSE [pacer EXCEPT !.pc = "cycle",
                                   !.cycle_start = pacer.now,
                                   !.started = Append(@, pacer.now)]
    /\ ~pacer.stop => Len(pacer.started) < MaxCycles
    /\ UNCHANGED <<pipeVars, tailer, gcb, ext, batch, codec, collector, drain>>

\* _collection_cycle returns, or raises and the error is logged, d seconds
\* after it was called; elapsed and sleep_time are computed and logged.
PaceCycle(d) ==
    /\ pacer.pc = "cycle"
    /\ pacer' = [pacer EXCEPT
                   !.pc = "wait",
                   !.now = @ + d,
                   !.ended = Append(@, pacer.now + d),
                   !.sleep_time = SleepTime(pacer.now + d - pacer.cycle_start)]
    /\ UNCHANGED <<pipeVars, tailer, gcb, ext, batch, codec, collector, drain>>

\* self._shutdown_event.wait(timeout=sleep_time): with the event set it
\* returns True at once and the loop is left; otherwise it returns False
\* once sleep_time has passed.
PaceWait ==
    /\ pacer.pc = "wait"
    /\ pacer' = IF pacer.stop
                THEN [pacer EXCEPT !.pc = "stopped"]
                ELSE [pacer EXCEPT !.pc = "test",
                                   !.now = @ + pacer.sleep_time]
    /\ UNCHANGED <<pipeVars, tailer, gcb, ext, batch, codec, collector, drain>>

\* _handle_shutdown: running is set False and the event is set.
PaceSignal ==
    /\ ~pacer.stop
    /\ pacer.pc # "stopped"
    /\ pacer' = [pacer EXCEPT !.stop = TRUE]
    /\ UNCHANGED <<pipeVars, tailer, gcb, ext, batch, codec, collector, drain>>

PaceNext ==
    \/ PaceTest
    \/ \E d \in 0..MaxDuration : PaceCycle(d)
    \/ PaceWait
    \/ PaceSignal

PaceSpec == Init /\ [][PaceNext]_vars

\* ------------------------------------------------ send_batch_to_listener
\* send_batch_to_listener(items, config, source) is called with n items:
\* sent = 0, buffered = 0.
BatchCall(n) ==
    /\ batch.pc = "idle"
    /\ batch' = [batch EXCEPT !.pc = "loop", !.items = n]
    /\ UNCHANGED <<pipeVars, tailer, gcb, ext, pacer, codec, collector, drain>>

\* One iteration of "for item in items": send_to_listener(item, ...). With
\* the breaker open and reset_timeout not elapsed the call raises
\* CircuitBreakerError without a POST; otherwise requests.post is issued
\* (as the trial call when the breaker was open) and answered r. True
\* counts as sent, False, after buffer_data, as buffered.
BatchSend(r) ==
    /\ batch.pc = "loop"
    /\ batch.done < batch.items
    /\ batch' =
         IF batch.state = "open" /\ ~batch.elapsed
         THEN [batch EXCEPT !.done = @ + 1, !.buffered = @ + 1]
         ELSE IF Raises(r)
         THEN LET trips == batch.state = "open"
                           \/ Trips(batch.fail_counter + 1) IN
              [batch EXCEPT !.done = @ + 1,
                            !.buffered = @ + 1,
                            !.posts = @ + 1,
                            !.fail_counter = @ + 1,
                            !.state = IF trips THEN "open" ELSE @,
                            !.elapsed = IF trips THEN FALSE ELSE @,
                            !.opened = @ \/ trips]
         ELSE [batch EXCEPT !.done = @ + 1,
                            !.sent = @ + 1,
                            !.posts = @ + 1,
                            !.fail_counter = CountAfterSuccess(@),
                            !.state = "closed"]
    /\ UNCHANGED <<pipeVars, tailer, gcb, ext, pacer, codec, collector, drain>>

\* reset_timeout has passed since the breaker opened.
BatchTimeout ==
    /\ batch.pc = "loop"
    /\ batch.state = "open"
    /\ ~batch.elapsed
    /\ batch' = [batch EXCEPT !.elapsed = TRUE]
    /\ UNCHANGED <<pipeVars, tailer, gcb, ext, pacer, codec, collector, drain>>

\* The loop is over: return sent, buffered.
BatchReturn ==
    /\ batch.pc = "loop"
    /\ batch.done = batch.items
    /\ batch' = [batch EXCEPT !.pc = "returned",
                              !.returned = <<batch.sent, batch.buffered>>]
    /\ UNCHANGED <<pipeVars, tailer, gcb, ext, pacer, codec, collector, drain>>

BatchNext ==
    \/ \E n \in 0..MaxItems : BatchCall(n)
    \/ \E r \in Responses : BatchSend(r)
    \/ BatchTimeout
    \/ BatchReturn

BatchSpec == Init /\ [][BatchNext]_vars

\* ------------------------------------ the envelope as JSON, stored and sent
\* Python values a sampler's dict can hold, one level deep: scalars, of
\* which a datetime that no sampler converted stands for the values json
\* cannot serialize, a list or a tuple of them and a dict with a str or
\* int key.
PyScalars ==
    {[k |-> "int", v |-> "1"], [k |-> "float", v |-> "0.5"],
     [k |-> "str", v |-> "a"], [k |-> "None", v |-> "null"],
     [k |-> "datetime", v |-> "2024-01-01"]}

PyValues ==
    PyScalars
    \cup {[k |-> c, items |-> <<x>>] : c \in {"list", "tuple"}, x \in PyScalars}
    \cup {[k |-> "dict", key |-> key, val |-> x] :
            key \in {[k |-> "str", v |-> "a"], [k |-> "int", v |-> "1"]},
            x \in PyScalars}

\* json.dumps raises TypeError for a value it cannot serialize.
Serializable(x) ==
    CASE x.k \in {"list", "tuple"} -> \A i \in DOMAIN x.items :
                                        x.items[i].k # "datetime"
      [] x.k = "dict" -> x.val.k # "datetime"
      [] OTHER -> x.k # "datetime"

\* json.dumps of a scalar: int and float become a number, str a string, None
\* null.
DumpScalar(x) ==
    CASE x.k \in {"int", "float"} -> [k |-> "number", v |-> x.v]
      [] x.k = "str" -> [k |-> "string", v |-> x.v]
      [] OTHER -> [k |-> "null", v |-> "null"]

\* json.loads of a scalar: a number without a fraction becomes an int, any
\* other number a float, a string a str, null None.
LoadScalar(j) ==
    CASE j.k = "number" -> [k |-> IF j.v \in {"1"} THEN "int" ELSE "float",
                            v |-> j.v]
      [] j.k = "string" -> [k |-> "str", v |-> j.v]
      [] OTHER -> [k |-> "None", v |-> "null"]

\* json.dumps: lists and tuples both become arrays, a dict an object whose
\* keys are strings.
dumps(x) ==
    CASE x.k \in {"list", "tuple"} ->
           [k |-> "array",
            items |-> [i \in DOMAIN x.items |-> DumpScalar(x.items[i])]]
      [] x.k = "dict" ->
           [k |-> "object", key |-> x.key.v, val |-> DumpScalar(x.val)]
      [] OTHER -> DumpScalar(x)

\* json.loads: an array becomes a list, an object a dict with str keys.
loads(j) ==
    CASE j.k = "array" ->
           [k |-> "list",
            items |-> [i \in DOMAIN j.items |-> LoadScalar(j.items[i])]]
      [] j.k = "object" ->
           [k |-> "dict", key |-> [k |-> "str", v |-> j.key],
            val |-> LoadScalar(j.val)]
      [] OTHER -> LoadScalar(j)

\* The JSON document of an envelope: its strings and its timestamp as they
\* are, its data serialized.
EncodeEnvelope(e) == [e EXCEPT !.data = dumps(e.data)]

\* The envelope json.loads builds from a document.
DecodeEnvelope(d) == [d EXCEPT !.data = loads(d.data)]

\* A flush that stamps the entry with the time of the retry.
RefreshedItem(item, t) == [item EXCEPT !.timestamp = t]

\* flush_buffer: requests.post(..., json=item, ...) with item as json.loads
\* returned it.
FlushItem(item, t) == item

\* send_to_listener builds the payload around data, with the time of the
\* call as its timestamp; the POST fails and buffer_data(payload) is called.
CodecBuild(c, d) ==
    /\ codec.pc = "idle"
    /\ codec' = [codec EXCEPT
                   !.pc = "built",
                   !.payload = [correlation_id |-> c, project |-> "default",
                                timestamp |-> codec.now, source |-> "pg_locks",
                                data |-> d]]
    /\ UNCHANGED <<pipeVars, tailer, gcb, ext, pacer, batch, collector, drain>>

\* buffer_data: _buffer.put(json.dumps(data)); when json.dumps raises,
\* buffer_put_failed is logged and nothing is stored.
CodecPut ==
    /\ codec.pc = "built"
    /\ codec' = IF Serializable(codec.payload.data)
                THEN [codec EXCEPT !.pc = "stored",
                                   !.stored = EncodeEnvelope(codec.payload)]
                ELSE [codec EXCEPT !.pc = "dropped"]
    /\ UNCHANGED <<pipeVars, tailer, gcb, ext, pacer, batch, collector, drain>>

\* A second passes.
CodecClock ==
    /\ codec.pc \in {"built", "stored", "posted"}
    /\ codec.now < MaxClock
    /\ codec' = [codec EXCEPT !.now = @ + 1]
    /\ UNCHANGED <<pipeVars, tailer, gcb, ext, pacer, batch, collector, drain>>

\* flush_buffer: item_str = _buffer.get(); item = json.loads(item_str);
\* requests.post(json=item), which serializes item as the body.
CodecFlush ==
    /\ codec.pc = "stored"
    /\ codec' = [codec EXCEPT
                   !.pc = "posted",
                   !.body = EncodeEnvelope(
                              FlushItem(DecodeEnvelope(codec.stored),
                                        codec.now))]
    /\ UNCHANGED <<pipeVars, tailer, gcb, ext, pacer, batch, collector, drain>>

\* The listener answers with a status other than 200: _buffer.put(item_str).
CodecPutBack ==
    /\ codec.pc = "posted"
    /\ codec' = [codec EXCEPT !.pc = "stored"]
    /\ UNCHANGED <<pipeVars, tailer, gcb, ext, pacer, batch, collector, drain>>

CodecNext ==
    \/ \E c \in {"", "req-1"}, d \in PyValues : CodecBuild(c, d)
    \/ CodecPut
    \/ CodecClock
    \/ CodecFlush
    \/ CodecPutBack

CodecSpec == Init /\ [][CodecNext]_vars

\* ------------------------------------- LogCollector and its two threads
\* collector.lists holds the list objects the LogCollector has had, by
\* identity; collector.entries is the one self._entries names. Log entries
\* are numbered in the order the tailer yields them.
\* The tailer yields an entry to log_parser_worker.
ColYield ==
    /\ collector.pc["log"] = "tail"
    /\ collector.added < MaxEntries
    /\ collector' = [collector EXCEPT !.pc["log"] = "check"]
    /\ UNCHANGED <<pipeVars, tailer, gcb, ext, pacer, batch, codec, drain>>

\* log_parser_worker: if self._shutdown_event.is_set(): break
ColCheck ==
    /\ collector.pc["log"] = "check"
    /\ collector' = [collector EXCEPT
                       !.pc["log"] = IF collector.event THEN "ended" ELSE "add"]
    /\ UNCHANGED <<pipeVars, tailer, gcb, ext, pacer, batch, codec, drain>>

\* LogCollector.add: self._entries is loaded, for the append.
ColAddLoad ==
    /\ collector.pc["log"] = "add"
    /\ collector' = [collector EXCEPT !.local["log"] = collector.entries,
                                      !.pc["log"] = "append"]
    /\ UNCHANGED <<pipeVars, tailer, gcb, ext, pacer, batch, codec, drain>>

\* LogCollector.add: the entry is appended to the list that was loaded;
\* len(self._entries) >= self.max_entries decides whether the log thread
\* calls _send_log_entries.
ColAppend ==
    /\ collector.pc["log"] = "append"
    /\ LET lists == [collector.lists EXCEPT
                       ![collector.local["log"]] = Append(@, collector.added + 1)]
       IN collector' = [collector EXCEPT
                          !.lists = lists,
                          !.added = @ + 1,
                          !.pc["log"] =
                             IF Len(lists[collector.entries]) >= MaxBatch
                             THEN "flush" ELSE "tail"]
    /\ UNCHANGED <<pipeVars, tailer, gcb, ext, pacer, batch, codec, drain>>

\* LogCollector.flush: entries = self._entries
ColFlushRead(t) ==
    /\ collector.pc[t] = "flush"
    /\ collector' = [collector EXCEPT !.local[t] = collector.entries,
                                      !.pc[t] = "swap"]
    /\ UNCHANGED <<pipeVars, tailer, gcb, ext, pacer, batch, codec, drain>>

\* LogCollector.flush: self._entries = []; return entries
ColFlushSwap(t) ==
    /\ collector.pc[t] = "swap"
    /\ collector' = [collector EXCEPT !.lists = Append(@, <<>>),
                                      !.entries = Len(collector.lists) + 1,
                                      !.pc[t] = "send"]
    /\ UNCHANGED <<pipeVars, tailer, gcb, ext, pacer, batch, codec, drain>>

\* _send_log_entries after flush(): nothing is sent for an empty list;
\* otherwise log_data is built around the list and handed to
\* send_to_listener as a pg_log envelope.
ColSend(t) ==
    /\ collector.pc[t] = "send"
    /\ collector' = [collector EXCEPT
                       !.envelopes = IF collector.lists[collector.local[t]] = <<>>
                                     THEN @
                                     ELSE Append(@, collector.lists[collector.local[t]]),
                       !.pc[t] = IF t = "main" THEN "closed" ELSE "tail"]
    /\ UNCHANGED <<pipeVars, tailer, gcb, ext, pacer, batch, codec, drain>>

\* A signal sets the event; the collection loop ends, start() returns and
\* stop() calls _cleanup.
ColSignal ==
    /\ collector.pc["main"] = "loop"
    /\ collector' = [collector EXCEPT !.event = TRUE, !.pc["main"] = "count"]
    /\ UNCHANGED <<pipeVars, tailer, gcb, ext, pacer, batch, codec, drain>>

\* _cleanup: if self._log_collector.count() > 0: self._send_log_entries()
ColCount ==
    /\ collector.pc["main"] = "count"
    /\ collector' = [collector EXCEPT
                       !.pc["main"] =
                          IF Len(collector.lists[collector.entries]) > 0
                          THEN "flush" ELSE "closed"]
    /\ UNCHANGED <<pipeVars, tailer, gcb, ext, pacer, batch, codec, drain>>

\* _cleanup returns, main() returns and the process exits; the log thread,
\* a daemon thread, ends with it.
ColExit ==
    /\ collector.pc["main"] = "closed"
    /\ collector' = [collector EXCEPT
                       !.pc = [t \in Threads |->
                                 IF t = "main" THEN "exited"
                                 ELSE IF collector.pc[t] = "ended"
                                      THEN "ended" ELSE "killed"]]
    /\ UNCHANGED <<pipeVars, tailer, gcb, ext, pacer, batch, codec, drain>>

CollectorNext ==
    \/ ColYield
    \/ ColCheck
    \/ ColAddLoad
    \/ ColAppend
    \/ \E t \in Threads : ColFlushRead(t)
    \/ \E t \in Threads : ColFlushSwap(t)
    \/ \E t \in Threads : ColSend(t)
    \/ ColSignal
    \/ ColCount
    \/ ColExit

CollectorSpec == Init /\ [][CollectorNext]_vars

\* --------------------------------------- the pipeline, tick after tick
\* What the listener can answer: anything until it has recovered, 200 to
\* every POST from then on.
Answers == IF drain.ok THEN {"200"} ELSE Responses

\* A flush whose POST was answered 200 and that leaves the entry in the
\* queue.
QueueKept(n) == n

\* flush_buffer: _buffer.get() has taken the entry out and after a 200
\* task_done() leaves it out.
QueueAfterSent(n) == n - 1

\* send_to_listener(envelope): with the breaker open and reset_timeout not
\* elapsed CircuitBreakerError is raised and the envelope buffered; otherwise
\* it is POSTed, as the trial call if the breaker was open: a 2xx answer
\* closes the breaker and resets its counter, anything else is counted, may
\* open the breaker, and the envelope is buffered, the oldest entries being
\* evicted from a full buffer. The counter is not followed past fail_max,
\* from where on every failure trips.
DrainAfterSend(r) ==
    IF drain.state = "open" /\ ~drain.elapsed
    THEN [drain EXCEPT !.queue = Min(@ + 1, MaxBuffered)]
    ELSE IF Raises(r)
    THEN LET trips == drain.state = "open" \/ Trips(drain.fail_counter + 1) IN
         [drain EXCEPT !.queue = Min(@ + 1, MaxBuffered),
                       !.fail_counter = Min(@ + 1, FailMax),
                       !.state = IF trips THEN "open" ELSE @,
                       !.elapsed = IF trips THEN FALSE ELSE @]
    ELSE [drain EXCEPT !.fail_counter = CountAfterSuccess(@),
                       !.state = "closed"]

\* _collection_cycle: the pg_locks envelope, sent on every tick.
DrainSendLocks(r) ==
    /\ drain.pc = "send_locks"
    /\ drain' = [DrainAfterSend(r) EXCEPT !.pc = "send_metrics"]
    /\ UNCHANGED <<pipeVars, tailer, gcb, ext, pacer, batch, codec, collector>>

\* _collection_cycle: the system_metrics envelope, sent on every tick.
DrainSendMetrics(r) ==
    /\ drain.pc = "send_metrics"
    /\ drain' = [DrainAfterSend(r) EXCEPT !.pc = "flush_test"]
    /\ UNCHANGED <<pipeVars, tailer, gcb, ext, pacer, batch, codec, collector>>

\* _send_log_entries on the log thread: a pg_log envelope is sent while the
\* main thread is between two of its steps (a send that changes nothing is
\* no step).
DrainSendLog(r) ==
    /\ drain' = DrainAfterSend(r)
    /\ drain' # drain
    /\ UNCHANGED <<pipeVars, tailer, gcb, ext, pacer, batch, codec, collector>>

\* _collection_cycle: if not is_circuit_open() and the queue is not empty,
\* flush_buffer(max_items=50) sets up its loop; otherwise the cycle is over.
DrainFlushTest ==
    /\ drain.pc = "flush_test"
    /\ drain' = IF drain.state # "open" /\ drain.queue > 0
                THEN [drain EXCEPT !.pc = "flush",
                                   !.left = Min(drain.queue, FlushMaxItems)]
                ELSE [drain EXCEPT !.pc = "wait"]
    /\ UNCHANGED <<pipeVars, tailer, gcb, ext, pacer, batch, codec, collector>>

\* One iteration of flush_buffer's loop: it ends when the breaker is open;
\* otherwise an entry is taken and POSTed. After 200 the loop goes on
\* without the entry, after another status the entry is put back and the
\* loop ends, after an exception the loop ends without the entry.
DrainFlushItem(r) ==
    /\ drain.pc = "flush"
    /\ drain' =
         IF drain.left = 0 \/ drain.state = "open" \/ drain.queue = 0
         THEN [drain EXCEPT !.pc = "wait", !.left = 0]
         ELSE IF FlushOk(r)
         THEN [drain EXCEPT !.queue = QueueAfterSent(@), !.left = @ - 1]
         ELSE IF r = "exc"
         THEN [drain EXCEPT !.queue = @ - 1, !.left = 0, !.pc = "wait"]
         ELSE [drain EXCEPT !.left = 0, !.pc = "wait"]
    /\ UNCHANGED <<pipeVars, tailer, gcb, ext, pacer, batch, codec, collector>>

\* _collection_loop: the wait is over and the next cycle starts.
DrainTick ==
    /\ drain.pc = "wait"
    /\ drain' = [drain EXCEPT !.pc = "send_locks"]
    /\ UNCHANGED <<pipeVars, tailer, gcb, ext, pacer, batch, codec, collector>>

\* reset_timeout has passed since the breaker opened.
DrainTimeout ==
    /\ drain.state = "open"
    /\ ~drain.elapsed
    /\ drain' = [drain EXCEPT !.elapsed = TRUE]
    /\ UNCHANGED <<pipeVars, tailer, gcb, ext, pacer, batch, codec, collector>>

\* The listener recovers: from now on it answers every POST with 200.
DrainRecovers ==
    /\ ~drain.ok
    /\ drain' = [drain EXCEPT !.ok = TRUE]
    /\ UNCHANGED <<pipeVars, tailer, gcb, ext, pacer, batch, codec, collector>>

\* The steps of the main thread, one tick after the other.
DrainMainStep ==
    \/ \E r \in Answers : DrainSendLocks(r)
    \/ \E r \in Answers : DrainSendMetrics(r)
    \/ DrainFlushTest
    \/ \E r \in Answers : DrainFlushItem(r)
    \/ DrainTick

DrainNext ==
    \/ DrainMainStep
    \/ \E r \in Answers : DrainSendLog(r)
    \/ DrainTimeout
    \/ DrainRecovers

\* Ticks keep occurring and time passes: the main thread takes its next
\* step and an open breaker's reset_timeout runs out. The log thread's sends
\* and the listener's recovery are left to the environment.
DrainSpec ==
    Init /\ [][DrainNext]_vars /\ WF_vars(DrainMainStep) /\ WF_vars(DrainTimeout)

\* ============================================================== claims

\* C1 (first half): whenever the breaker is open, no POST is issued to the
\* listener, neither by send_to_listener nor by flush_buffer.
C1_NoPostWhileOpen ==
    [][ /\ (pc["main"] = "f_get" /\ pc'["main"] = "f_post") => cbState # "open"
        /\ \A t \in Threads :
             (pc[t] = "s_call" /\ pc'[t] = "s_post") => cbState' # "open" ]_vars

\* C2: an entry that flush_buffer dequeued and whose POST did not succeed
\* (non-2xx status or transport exception) is in the buffer when flush_buffer
\* has dealt with the answer.
C2_FailedFlushKeepsEntry ==
    [][ (pc["main"] = "f_resp" /\ pc'["main"] # "f_resp" /\ ~Is2xx(flushResp))
          => InQueue(queue', flushItem.seq) ]_vars

\* C3: when send_to_listener returns, its envelope was either accepted by the
\* listener (the function returns sent) or is enqueued in the buffer.
C3_NoEnvelopeDropped ==
    [][ \A t \in Threads :
          (pc[t] # "s_ret" /\ pc'[t] = "s_ret")
            => (result'[t] = "sent" \/ InQueue(queue', cur'[t].seq)) ]_vars

\* C4: once FailMax consecutive POSTs of send_to_listener have failed the
\* breaker is open (never closed), and a send attempted while it is open and
\* reset_timeout has not elapsed goes to buffer_data without a POST: it returns
\* buffered, and the envelope is enqueued whenever the buffer is still open.
C4_OpensAfterFailMax ==
    /\ [](consecFails >= FailMax => cbState # "closed")
    /\ [][ /\ (consecFails' # consecFails /\ consecFails' >= FailMax)
                => cbState' = "open"
           /\ \A t \in Threads :
                (pc[t] = "s_call" /\ pc'[t] \notin {"s_call", "killed"}
                 /\ cbState = "open" /\ ~elapsed)
                  => (pc'[t] = "b_check" /\ cbState' = "open") ]_vars
    /\ [](\A t \in Threads :
            (pc[t] = "s_ret" /\ lastResp[t] = "none")
              => (result[t] = "buffered" /\ (cur[t].seq = 0 => ~bufOpen)))

\* C4 witness: the breaker is open after FailMax consecutive failures and a
\* further send has just been buffered without any POST.
C4_Witness ==
    \E t \in Threads :
        /\ pc[t] = "s_ret" /\ result[t] = "buffered" /\ lastResp[t] = "none"
        /\ cur[t].seq > 0 /\ InQueue(queue, cur[t].seq)
        /\ cbState = "open" /\ consecFails = FailMax

\* C5: in half_open exactly one trial POST is issued across all tasks, the
\* flush path included; a successful trial closes the breaker with no counted
\* failures, a failed trial opens it again with the timeout clock restarted.
C5_OneTrialInHalfOpen ==
    [][ /\ (pc["main"] = "f_get" /\ pc'["main"] = "f_post") => cbState # "half-open"
        /\ \A t \in Threads :
             (pc[t] = "s_post" /\ pc'[t] \notin {"s_post", "killed"}
              /\ cbState = "half-open")
               => IF Raises(lastResp'[t])
                  THEN cbState' = "open" /\ ~elapsed'
                  ELSE cbState' = "closed" /\ failCount' = 0 ]_vars

\* C6: a successful send leaves the breaker closed with fail_counter 0, and
\* the breaker leaves the closed state only on the FailMax-th failure in a row.
C6_SuccessResetsCount ==
    [][ /\ \A t \in Threads :
             (pc[t] = "s_post" /\ pc'[t] = "s_ret")
               => (failCount' = 0 /\ cbState' = "closed")
        /\ (cbState = "closed" /\ cbState' = "open") => consecFails' >= FailMax
        /\ (cbState = "closed" /\ cbState' = "closed" /\ consecFails' = 0)
               => failCount' = 0 ]_vars

\* C6 witness: a send has just succeeded after earlier sends were buffered, and
\* the breaker is closed with fail_counter 0.
C6_Witness ==
    \E t \in Threads :
        /\ pc[t] = "s_ret" /\ result[t] = "sent" /\ Is2xx(lastResp[t])
        /\ cbState = "closed" /\ failCount = 0 /\ Len(queue) > 0

\* C7: send_to_listener returns sent exactly when its POST got a 2xx answer,
\* and otherwise returns buffered.
C7_SentIff2xx ==
    \A t \in Threads :
        pc[t] = "s_ret" =>
            /\ result[t] \in {"sent", "buffered"}
            /\ result[t] = "sent" <=> Is2xx(lastResp[t])

\* C8 (flush path): a failed POST of flush_buffer (an exception or a non-2xx
\* answer) is counted by the breaker as a failure.
C8_FlushFailureCounted ==
    [][ (pc["main"] = "f_resp" /\ pc'["main"] # "f_resp" /\ ~Is2xx(flushResp))
          => failCount' = failCount + 1 ]_vars

\* C9: an entry whose flush POST is answered with a failure status is
\* re-enqueued at the head of the buffer.
C9_RequeueAtHead ==
    [][ (pc["main"] = "f_resp" /\ pc'["main"] # "f_resp" /\ flushResp = "503")
          => (queue' # <<>> /\ Head(queue').seq = flushItem.seq) ]_vars

\* C10: in every reachable state the on-disk size of the buffer is at most
\* the configured maximum.
C10_SizeWithinMax == disk <= BufferMaxSize

\* C11: put, get and eviction are serialized, so every put is made on the
\* buffer its producer has just tested and trimmed: the file is within the
\* maximum, or the eviction loop has emptied the queue.
C11_PutOnTestedBuffer ==
    [][ \A t \in Threads :
          (pc[t] = "b_put" /\ pc'[t] = "s_ret" /\ bufOpen)
            => (~OverLimit(disk) \/ queue = <<>>) ]_vars

\* C12: every envelope POSTed, by send_to_listener or by flush_buffer, has a
\* non-empty project and a source of the closed set.
C12_EnvelopeFields ==
    /\ \A t \in Threads :
         pc[t] = "s_post" => (cur[t].project # "" /\ cur[t].src \in Sources)
    /\ pc["main"] = "f_post"
         => (flushItem.project # "" /\ flushItem.src \in Sources)

\* C13 (flush path): any 2xx answer to the POST of a replayed entry removes
\* the entry from the buffer and counts it as sent, the flush going on with
\* the next entry.
C13_FlushSuccessIs2xx ==
    [][ (pc["main"] = "f_resp" /\ pc'["main"] # "f_resp" /\ Is2xx(flushResp))
          => (~InQueue(queue', flushItem.seq) /\ pc'["main"] = "f_check") ]_vars

C15_EnvelopePerResult ==
    [][ /\ (pc["main"] = "c_activity" /\ pc'["main"] # "c_activity")
              => IF results.pg_activity
                 THEN pc'["main"] = "s_call"
                      /\ cur'["main"].src = "pg_stat_activity"
                 ELSE pc'["main"] = "c_statements" /\ cur' = cur
        /\ (pc["main"] = "c_statements" /\ pc'["main"] # "c_statements")
              => IF results.pg_statements
                 THEN pc'["main"] = "s_call"
                      /\ cur'["main"].src = "pg_stat_statements"
                 ELSE pc'["main"] = "c_locks" /\ cur' = cur
        /\ (pc["main"] = "c_locks" /\ pc'["main"] # "c_locks")
              => (pc'["main"] = "s_call" /\ cur'["main"].src = "pg_locks")
        /\ (pc["main"] = "c_metrics" /\ pc'["main"] # "c_metrics")
              => /\ results.system_metrics
                 /\ pc'["main"] = "s_call"
                 /\ cur'["main"].src = "system_metrics"
        /\ (pc["main"] = "s_ret" /\ pc'["main"] # "s_ret")
              => pc'["main"] =
                   CASE cur["main"].src = "pg_stat_activity" -> "c_statements"
                     [] cur["main"].src = "pg_stat_statements" -> "c_locks"
                     [] cur["main"].src = "pg_locks" -> "c_metrics"
                     [] cur["main"].src = "system_metrics" -> "c_flush"
                     [] OTHER -> "cleanup_pool" ]_vars

\* C15 witness: the pg_locks envelope is with the sender although the lock
\* result of this tick is empty, after a pg_stat_statements envelope was
\* passed and buffered.
C15_Witness ==
    /\ pc["main"] = "s_call"
    /\ cur["main"].src = "pg_locks"
    /\ ~results.locks
    /\ \E i \in 1..Len(queue) : queue[i].src = "pg_stat_statements"

\* C16: when a record carrying a correlation id is yielded to the log pump
\* before shutdown, the pump at once sends its batch as one pg_log envelope.
C16_CorrelationFlushes ==
    [][ (pc["log"] = "tail" /\ line_buffer = "corr" /\ line_buffer' # "corr"
         /\ ~shutdown)
          => /\ pc'["log"] = "s_call"
             /\ cur'["log"].src = "pg_log"
             /\ logCount' = 0 ]_vars

\* C17: shutdown sets the stop flag, then waits for the log pump (which by
\* then has returned, or is still busy sending when the bounded wait runs
\* out), then flushes the residual log batch, then closes the pool, then
\* closes the buffer.
C17_ShutdownOrder ==
    [][ /\ (pc["main"] = "stop" /\ pc'["main"] # "stop") => shutdown'
        /\ (pc["main"] = "cleanup_log" /\ pc'["main"] # "cleanup_log")
              => (shutdown /\ pc["log"] # "tail")
        /\ (pool /\ ~pool') => (shutdown /\ logCount = 0)
        /\ (bufOpen /\ ~bufOpen') => ~pool ]_vars

\* C18: the pool is created before the buffer and the buffer before the
\* breaker; on shutdown the buffer is closed before the pool.
C18_ReverseTeardown ==
    [][ /\ (~bufOpen /\ bufOpen') => pool
        /\ (~breaker /\ breaker') => (pool /\ bufOpen)
        /\ (pool /\ ~pool') => ~bufOpen ]_vars

\* C19 (log pump): once the stop flag is set the log pump eventually returns,
\* also when no further line is written to the log.
C19_LogPumpReturns == shutdown ~> (pc["log"] = "done")

\* C20: when shutdown has completed and the process exits, the tailer has
\* emitted the lines that were pending in its accumulator: line_buffer is
\* empty.
C20_AccumulatorFlushed == pc["main"] = "exited" => line_buffer = "none"

\* C23: a failure inside a collection cycle does not end the collection
\* loop: a failure of the active-session sampler lets the cycle go on, an
\* exception that leaves the cycle is caught and followed by the wait, the
\* wait is followed by the loop test and the next cycle, and the loop is left
\* only with the stop flag set.
C23_LoopSurvivesFailure ==
    [][ /\ (pc["main"] = "c_failed" /\ pc'["main"] # "c_failed")
              => pc'["main"] = "wait"
        /\ (pc["main"] = "q_activity" /\ errors' # errors)
              => pc'["main"] = "q_statements"
        /\ (pc["main"] = "wait" /\ pc'["main"] # "wait" /\ ~shutdown)
              => pc'["main"] = "loop"
        /\ (pc["main"] = "loop" /\ pc'["main"] # "loop" /\ running)
              => pc'["main"] = "q_activity"
        /\ (pc["main"] \in {"loop", "wait", "c_failed"} /\ pc'["main"] = "stop")
              => shutdown ]_vars

\* C23 witness: an exception has left the cycle and the loop's except clause
\* has caught it, the stop flag not being set.
C23_Witness == pc["main"] = "c_failed" /\ running /\ ~shutdown

\* C25: when SELECT 1 of create_pool returns something other than 1, start-up
\* fails.
C25_StartupFailsUnlessOne ==
    [][ (pc["main"] = "pool_other" /\ pc'["main"] # "pool_other")
          => pc'["main"] = "start_failed" ]_vars

\* C26: when the eviction loop of buffer_data ends, the on-disk size is at
\* most 0.8 times the maximum, which is the size the new entry is put at.
C26_EvictedToTarget ==
    [][ \A t \in Threads :
          (pc[t] = "b_evict" /\ pc'[t] = "b_put")
            => 10 * disk' <= 8 * BufferMaxSize ]_vars

\* C27: buffer_data finding a non-empty buffer whose on-disk size is exactly
\* the maximum evicts before it puts the new entry.
C27_EvictsAtExactMax ==
    [][ \A t \in Threads :
          (pc[t] = "b_check" /\ pc'[t] \notin {"b_check", "killed"}
           /\ bufOpen /\ disk = BufferMaxSize /\ queue # <<>>)
            => pc'[t] = "b_evict" ]_vars

\* C28 (first half): at the end of a tick a flush is attempted only when the
\* breaker is closed.
C28_FlushOnlyWhenClosed ==
    [][ (pc["main"] = "c_flush" /\ pc'["main"] = "f_check")
          => cbState = "closed" ]_vars

\* C29: the batch of the log pump never holds more than LogMaxEntries
\* entries, and is never left holding LogMaxEntries: the entry that fills it
\* makes the pump empty it into one pg_log envelope, which is the only way
\* the pump comes to send.
C29_BatchBounded ==
    /\ [](logCount <= LogMaxEntries)
    /\ [][ /\ logCount' > logCount => logCount' < LogMaxEntries
           /\ (pc["log"] = "tail" /\ pc'["log"] = "s_call")
                => /\ logCount + 1 >= LogMaxEntries
                   /\ logCount' = 0
                   /\ cur'["log"].src = "pg_log" ]_vars

\* C29 witness: the entry that filled the batch has arrived before shutdown;
\* the batch is empty again and its pg_log envelope is with the sender.
C29_Witness ==
    /\ pc["log"] = "s_call"
    /\ cur["log"].src = "pg_log"
    /\ logCount = 0
    /\ ~shutdown

\* C30: the stop flag does not interrupt a cycle in flight (the loop is left
\* only at its wait or its test, never from inside a cycle), and once it is
\* set during a cycle or during the wait no further cycle is started: the
\* wait leads to stop(), the loop test starts a cycle only while running is
\* true, and running is never set again once the loop has been entered.
C30_StopFlagEndsLoop ==
    [][ /\ (pc["main"] # "stop" /\ pc'["main"] = "stop")
              => pc["main"] \in {"loop", "wait", "start_failed"}
        /\ (pc["main"] = "wait" /\ pc'["main"] # "wait" /\ shutdown)
              => pc'["main"] = "stop"
        /\ (pc["main"] = "loop" /\ pc'["main"] # "loop" /\ ~running)
              => pc'["main"] = "stop"
        /\ (pc["main"] = "loop" /\ pc'["main"] = "q_activity") => running
        /\ (~running /\ running') => pc["main"] = "start_log" ]_vars

\* C30 witness: the stop flag was set while a cycle was in flight, and the
\* cycle is still at work: its flush is POSTing a buffered entry.
C30_Witness == pc["main"] = "f_post" /\ shutdown /\ ~running

\* C21: every record the tailer has emitted holds a whole log record: it
\* starts at a timestamped line, holds the physical lines that follow it in
\* the same file one by one, none of them timestamped, and the line after its
\* last one, if the file has one, is timestamped.
C21_RecordsComplete ==
    \A n \in 1..Len(tailer.yielded) :
        LET r == tailer.yielded[n]
            first == r.lines[1]
            last == r.lines[Len(r.lines)]
            file == tailer.files[first.ino]
        IN /\ IsTimestamped(first)
           /\ \A i \in 1..Len(r.lines) :
                r.lines[i].ino = first.ino /\ r.lines[i].no = first.no + i - 1
           /\ \A i \in 2..Len(r.lines) : ~IsTimestamped(r.lines[i])
           /\ last.no < Len(file) => file[last.no + 1] \in {"entry", "odd"}

C24_OneBreaker ==
    /\ Len(gcb.instances) <= 1
    /\ \A t \in Threads : gcb.pc[t] = "call" => gcb.breaker[t] = gcb.global

C32_FlagWrittenOnce ==
    [][/\ ext'.writes <= 1
       /\ ext.available # "None" => ext'.available = ext.available
       /\ (ext.pc = "checked" /\ ext.available = "False")
          => /\ ext'.queried = ext.queried
             /\ ext'.returned = Append(ext.returned, "skipped")]_vars

\* C31: after each cycle the loop sleeps max(0, interval - elapsed). Every
\* cycle but the first starts one interval after the start of the cycle
\* before it, or when that cycle ended if it took longer; so a cycle longer
\* than the interval is followed at once by one next cycle, and the cycle
\* after that one starts no sooner than an interval later: missed ticks are
\* not accumulated or replayed.
C31_TickPacing ==
    /\ \A i \in 1..Len(pacer.ended) :
          LET elapsed_s == pacer.ended[i] - pacer.started[i] IN
          /\ pacer.pc = "wait" /\ i = Len(pacer.ended)
             => pacer.sleep_time = Max(0, IntervalS - elapsed_s)
          /\ i < Len(pacer.started)
             => pacer.started[i + 1]
                  = Max(pacer.started[i] + IntervalS, pacer.ended[i])
          /\ elapsed_s > IntervalS /\ i + 2 <= Len(pacer.started)
             => pacer.started[i + 2] >= pacer.started[i + 1] + IntervalS

\* C31 witness: the first cycle took longer than the interval, the second
\* started the moment the first ended and the third one interval after the
\* second.
C31_Witness ==
    /\ Len(pacer.started) = 3
    /\ pacer.ended[1] - pacer.started[1] > IntervalS
    /\ pacer.started[2] = pacer.ended[1]
    /\ pacer.started[3] = pacer.started[2] + IntervalS

\* C33: after an I/O error in its polling loop the tailer logs, sleeps and
\* retries, it never ends on its own, and with the log file there to be
\* read it gets back to polling an open file, from which entries are
\* emitted again.
C33_TailerResumes ==
    (tailer.pc = "error" /\ tailer.path_inode # 0)
        ~> (tailer.pc = "reading" /\ tailer.f # NoHandle)

\* C34: send_batch returns (sent_count, buffered_count) whose sum is the
\* number of items given, and once the breaker has opened during the batch
\* every remaining item is buffered without a network attempt.
C34_BatchCounts ==
    [][/\ batch'.pc = "returned"
          => batch'.returned[1] + batch'.returned[2] = batch'.items
       /\ (batch.opened /\ batch'.done # batch.done)
          => /\ batch'.posts = batch.posts
             /\ batch'.buffered = batch.buffered + 1]_vars

C37_EachEntryInOneEnvelope ==
    LET holds(i, e) == \E j \in DOMAIN collector.envelopes[i] :
                          collector.envelopes[i][j] = e
        held(e) == {i \in DOMAIN collector.envelopes : holds(i, e)}
    IN \A e \in 1..collector.added :
          /\ Cardinality(held(e)) <= 1
          /\ collector.pc["main"] = "exited" => Cardinality(held(e)) = 1

\* C36: if from some point on the listener answers every POST with 200 and
\* ticks keep occurring, then eventually the breaker is closed and the
\* persistent buffer is empty.
C36_EventuallyDrained ==
    drain.ok ~> (drain.state = "closed" /\ drain.queue = 0)

\* C36 witness: the listener has recovered and flush_buffer, in its loop, has
\* sent it the last buffered entry, with the breaker closed.
C36_Witness ==
    /\ drain.ok
    /\ drain.state = "closed"
    /\ drain.queue = 0
    /\ drain.pc = "flush"

====
